---------------------------- MODULE Spec2Model ----------------------------
(***************************************************************************)
(* Command encoding and reply decoding of the RediSearch clients           *)
(* (redicalsearch/mixin.py, redicalsearch/client.py and                    *)
(* aioredisearch/client.py).                                               *)
(*                                                                         *)
(* A Python str is a string.  A command token is a record [t, v]: t is the *)
(* Python type of the token ("str", "int" or "float") and v is the text    *)
(* str() gives for it.  An Optional[T] argument is a sequence of length 0  *)
(* (None) or 1 (the value).  A float is held as an integer number of       *)
(* tenths.                                                                 *)
(***************************************************************************)
EXTENDS Integers, Sequences, FiniteSets, TLC

(***************************************************************************)
(* Bounds of the model.                                                    *)
(***************************************************************************)
\* most keyword arguments / flag members one call supplies
MaxSet == 2

None == <<>>
Some(v) == <<v>>
IsNone(o) == Len(o) = 0
Val(o) == o[1]

RECURSIVE Flatten(_)
Flatten(ss) == IF Len(ss) = 0 THEN <<>> ELSE Head(ss) \o Flatten(Tail(ss))

(***************************************************************************)
(* Python builtins on str, int and float.                                  *)
(***************************************************************************)
\* str.lower() on one character
char_lower(c) ==
    LET UpperCase == "ABCDEFGHIJKLMNOPQRSTUVWXYZ"
        LowerCase == "abcdefghijklmnopqrstuvwxyz"
    IN  IF \E i \in 1..26 : SubSeq(UpperCase, i, i) = c
        THEN LET i == CHOOSE i \in 1..26 : SubSeq(UpperCase, i, i) = c IN SubSeq(LowerCase, i, i)
        ELSE c

\* str.lower()
RECURSIVE str_lower(_)
str_lower(s) == IF Len(s) = 0 THEN "" ELSE char_lower(Head(s)) \o str_lower(Tail(s))

\* `sub in s` for two str
str_contains(sub, s) ==
    \E i \in 0..(Len(s) - Len(sub)) : SubSeq(s, i + 1, i + Len(sub)) = sub

Digits == "0123456789"

\* str(n) for a non-negative int
RECURSIVE str_nat(_)
str_nat(n) ==
    IF n < 10 THEN SubSeq(Digits, n + 1, n + 1)
    ELSE str_nat(n \div 10) \o SubSeq(Digits, (n % 10) + 1, (n % 10) + 1)

\* str(n) for an int
str_int(n) == IF n < 0 THEN "-" \o str_nat(0 - n) ELSE str_nat(n)

\* str(x) for a float x = tenths / 10
str_float(tenths) ==
    LET a == IF tenths < 0 THEN 0 - tenths ELSE tenths
    IN  (IF tenths < 0 THEN "-" ELSE "") \o str_nat(a \div 10) \o "." \o str_nat(a % 10)

\* repr(s) for a str of printable ASCII characters: single quotes unless the
\* text holds a single quote and no double quote; the quote character and the
\* backslash are escaped
RECURSIVE repr_body(_, _)
repr_body(s, q) ==
    IF Len(s) = 0 THEN ""
    ELSE (IF Head(s) = "\\" \/ Head(s) = q THEN "\\" ELSE "") \o Head(s) \o repr_body(Tail(s), q)
repr(s) ==
    LET q == IF str_contains("'", s) /\ ~str_contains("\"", s) THEN "\"" ELSE "'"
    IN  q \o repr_body(s, q) \o q

(***************************************************************************)
(* Python numbers: an int n is [type |-> "int", n |-> n], a float is       *)
(* [type |-> "float", n |-> tenths].                                       *)
(***************************************************************************)
PyInt(n) == [type |-> "int", n |-> n]
PyFloat(tenths) == [type |-> "float", n |-> tenths]
\* isinstance(x, int)
is_int(x) == x.type = "int"
\* float(x), in tenths
py_float(x) == IF x.type = "int" THEN 10 * x.n ELSE x.n
\* int(x): truncation towards zero
py_int(x) ==
    IF x.type = "int" THEN x.n
    ELSE IF x.n < 0 THEN 0 - ((0 - x.n) \div 10) ELSE x.n \div 10
\* str(x)
py_str(x) == IF x.type = "int" THEN str_int(x.n) ELSE str_float(x.n)

(***************************************************************************)
(* Command tokens.                                                         *)
(***************************************************************************)
StrTok(s) == [t |-> "str", v |-> s]
IntTok(n) == [t |-> "int", v |-> str_int(n)]
FloatTok(x) == [t |-> "float", v |-> str_float(x)]

\* enum.Flag: `member in flags` is (flags & member) == member
RECURSIVE BitAnd(_, _)
BitAnd(a, b) ==
    IF a = 0 \/ b = 0 THEN 0
    ELSE (IF a % 2 = 1 /\ b % 2 = 1 THEN 1 ELSE 0) + 2 * BitAnd(a \div 2, b \div 2)

\* enum.Flag: a | b
RECURSIVE BitOr(_, _)
BitOr(a, b) ==
    IF a = 0 THEN b
    ELSE IF b = 0 THEN a
    ELSE (IF a % 2 = 1 \/ b % 2 = 1 THEN 1 ELSE 0) + 2 * BitOr(a \div 2, b \div 2)

\* Optional[Flag]: `flags is not None and member in flags`
FlagIn(member, flags) == ~IsNone(flags) /\ BitAnd(Val(flags), member) = member

\* the value of m1 | m2 | ... for a non-empty sequence of members
RECURSIVE OrAll(_)
OrAll(ms) == IF Len(ms) = 1 THEN ms[1] ELSE BitOr(OrAll(SubSeq(ms, 1, Len(ms) - 1)), ms[Len(ms)])

(***************************************************************************)
(* redicalsearch/const.py and aioredisearch/const.py: the wire keywords.   *)
(* str() of a member is its value.                                         *)
(***************************************************************************)
CommandCreateParameters == [
    FILTER |-> "FILTER", LANGUAGE |-> "LANGUAGE", LANGUAGE_FIELD |-> "LANGUAGE_FIELD",
    MAXTEXTFIELDS |-> "MAXTEXTFIELDS", NOFIELDS |-> "NOFIELDS", NOFREQS |-> "NOFREQS",
    NOHL |-> "NOHL", NOOFFSETS |-> "NOOFFSETS", ON |-> "ON", PAYLOAD_FIELD |-> "PAYLOAD_FIELD",
    PREFIX |-> "PREFIX", SCHEMA |-> "SCHEMA", SCORE |-> "SCORE", SCORE_FIELD |-> "SCORE_FIELD",
    SKIPINITIALSCAN |-> "SKIPINITIALSCAN", STOPWORDS |-> "STOPWORDS", TEMPORARY |-> "TEMPORARY"]

CommandSearchParameters == [
    ASC |-> "ASC", DESC |-> "DESC", EXPANDER |-> "EXPANDER", FIELDS |-> "FIELDS",
    FILTER |-> "FILTER", FRAGS |-> "FRAGS", GEOFILTER |-> "GEOFILTER", HIGHLIGHT |-> "HIGHLIGHT",
    INFIELDS |-> "INFIELDS", INKEYS |-> "INKEYS", INORDER |-> "INORDER", LANGUAGE |-> "LANGUAGE",
    LEN |-> "LEN", LIMIT |-> "LIMIT", NOCONTENT |-> "NOCONTENT", NOSTOPWORDS |-> "NOSTOPWORDS",
    PAYLOAD |-> "PAYLOAD", RETURN |-> "RETURN", SCORER |-> "SCORER", SEPARATOR |-> "SEPARATOR",
    SLOP |-> "SLOP", SORTBY |-> "SORTBY", SUMMARIZE |-> "SUMMARIZE", TAGS |-> "TAGS",
    WITHPAYLOADS |-> "WITHPAYLOADS", WITHSCORES |-> "WITHSCORES", WITHSORTKEYS |-> "WITHSORTKEYS",
    VERBATIM |-> "VERBATIM"]

CommandAddParameters == [
    FIELDS |-> "FIELDS", IF_ |-> "IF", LANGUAGE |-> "LANGUAGE", NOCREATE |-> "NOCREATE",
    NOSAVE |-> "NOSAVE", PARTIAL |-> "PARTIAL", PAYLOAD |-> "PAYLOAD", REPLACE |-> "REPLACE"]

ErrorResponses == [
    DOCUMENT_ALREADY_EXISTS |-> "document already exists",
    INDEX_ALREADY_EXISTS |-> "index already exists",
    UNKNOWN_INDEX |-> "unknown index name"]

FieldParameters == [
    NOINDEX |-> "NOINDEX", NOSTEM |-> "NOSTEM", PHONETIC |-> "PHONETIC",
    SEPARATOR |-> "SEPARATOR", SORTABLE |-> "SORTABLE", WEIGHT |-> "WEIGHT"]

FieldTypes == [GEO |-> "GEO", NUMERIC |-> "NUMERIC", TAG |-> "TAG", TEXT |-> "TEXT"]

FullTextCommands == [
    ADD |-> "FT.ADD", CREATE |-> "FT.CREATE", GET |-> "FT.GET", INFO |-> "FT.INFO",
    SEARCH |-> "FT.SEARCH"]

Languages == [
    ARABIC |-> "arabic", CHINESE |-> "chinese", DANISH |-> "danish", DUTCH |-> "dutch",
    ENGLISH |-> "english", FINNISH |-> "finnish", FRENCH |-> "french", GERMAN |-> "german",
    HUNGARIAN |-> "hungarian", ITALIAN |-> "italian", NORWEGIAN |-> "norwegian",
    PORTUGUESE |-> "portuguese", ROMANIAN |-> "romanian", RUSSIAN |-> "russian",
    SPANISH |-> "spanish", SWEDISH |-> "swedish", TAMIL |-> "tamil", TURKISH |-> "turkish"]

Structures == [HASH |-> "HASH"]

GeoFilterUnits == [FEET |-> "ft", KILOMETERS |-> "km", METERS |-> "m", MILES |-> "mi"]

PhoneticMatchers == [ENGLISH |-> "dm:en", FRENCH |-> "dm:fr", PORTUGUESE |-> "dm:pt", SPANISH |-> "dm:es"]

(***************************************************************************)
(* The enum.Flag classes; auto() numbers the members 1, 2, 4, ...          *)
(***************************************************************************)
CreateFlags == [
    MAX_TEXT_FIELDS |-> 1, NO_FIELDS |-> 2, NO_FREQUENCIES |-> 4, NO_HIGHLIGHTS |-> 8,
    NO_OFFSETS |-> 16, SKIP_INITIAL_SCAN |-> 32]

\* redicalsearch/option.py
SearchFlags == [
    EXPLAIN_SCORE |-> 1, IN_ORDER |-> 2, NO_CONTENT |-> 4, VERBATIM |-> 8, NO_STOPWORDS |-> 16,
    WITH_SCORES |-> 32, WITH_PAYLOADS |-> 64, WITH_SORT_KEYS |-> 128, ASC |-> 256, DESC |-> 512]

\* redicalsearch/client.py and aioredisearch/client.py
ClientSearchFlags == [
    ASC |-> 1, DESC |-> 2, EXPLAIN_SCORE |-> 4, IN_ORDER |-> 8, NO_CONTENT |-> 16, VERBATIM |-> 32,
    NO_STOPWORDS |-> 64, WITH_SCORES |-> 128, WITH_PAYLOADS |-> 256, WITH_SORT_KEYS |-> 512]

ReplaceOptions == [DEFAULT |-> 1, PARTIAL |-> 2, NO_CREATE |-> 4]

NumericFilterFlags == [EXCLUSIVE_MAX |-> 1, EXCLUSIVE_MIN |-> 2]

FieldFlags == [NO_INDEX |-> 1, NO_STEM |-> 2, SORTABLE |-> 4]

(***************************************************************************)
(* What a function does: it returns a value or raises an exception of     *)
(* class exc whose str() is text.                                          *)
(***************************************************************************)
Returns(v) == [raised |-> FALSE, exc |-> "", text |-> "", value |-> v]
Raises(exc, text) == [raised |-> TRUE, exc |-> exc, text |-> text, value |-> <<>>]

(***************************************************************************)
(* redicalsearch/field.py: a field is the list of its tokens.              *)
(***************************************************************************)

\* sortable_noindex with NOINDEX appended first
sortable_noindex_reversed(flags) ==
    (IF FlagIn(FieldFlags.NO_INDEX, flags) THEN <<StrTok(FieldParameters.NOINDEX)>> ELSE <<>>)
    \o (IF FlagIn(FieldFlags.SORTABLE, flags) THEN <<StrTok(FieldParameters.SORTABLE)>> ELSE <<>>)

\* the SORTABLE and NOINDEX tokens NumericField, TagField and TextField end with
sortable_noindex(flags) ==
    (IF FlagIn(FieldFlags.SORTABLE, flags) THEN <<StrTok(FieldParameters.SORTABLE)>> ELSE <<>>)
    \o (IF FlagIn(FieldFlags.NO_INDEX, flags) THEN <<StrTok(FieldParameters.NOINDEX)>> ELSE <<>>)

GeoField(name, flags) ==
    Returns(<<StrTok(name), StrTok(FieldTypes.GEO)>>
          \o (IF FlagIn(FieldFlags.NO_INDEX, flags) THEN <<StrTok(FieldParameters.NOINDEX)>> ELSE <<>>))

\* NumericField that reads NO_INDEX only, as GeoField does
NumericField_no_index_only(name, flags) ==
    Returns(<<StrTok(name), StrTok(FieldTypes.NUMERIC)>>
          \o (IF FlagIn(FieldFlags.NO_INDEX, flags) THEN <<StrTok(FieldParameters.NOINDEX)>> ELSE <<>>))

NumericField(name, flags) ==
    Returns(<<StrTok(name), StrTok(FieldTypes.NUMERIC)>> \o sortable_noindex(flags))

TagField(name, flags, separator) ==
    IF ~IsNone(separator) /\ Len(Val(separator)) > 1
    THEN Raises("ValueError", "Separator longer than one character: " \o repr(Val(separator)))
    ELSE Returns(<<StrTok(name), StrTok(FieldTypes.TAG)>>
               \o (IF IsNone(separator) THEN <<>>
                   ELSE <<StrTok(FieldParameters.SEPARATOR), StrTok(Val(separator))>>)
               \o sortable_noindex(flags))

\* phonetic_matcher is an Optional member of PhoneticMatchers, weight an Optional number
TextField(name, flags, phonetic_matcher, weight) ==
    Returns(<<StrTok(name), StrTok(FieldTypes.TEXT)>>
          \o (IF FlagIn(FieldFlags.NO_STEM, flags) THEN <<StrTok(FieldParameters.NOSTEM)>> ELSE <<>>)
          \o (IF IsNone(weight) THEN <<>> ELSE <<StrTok(FieldParameters.WEIGHT), FloatTok(py_float(Val(weight)))>>)
          \o (IF IsNone(phonetic_matcher) THEN <<>>
              ELSE <<StrTok(FieldParameters.PHONETIC), StrTok(Val(phonetic_matcher))>>)
          \o sortable_noindex(flags))

(***************************************************************************)
(* redicalsearch/mixin.py, Commands.create.  The arguments are a record a; *)
(* a.fields is the sequence of the fields' token lists.                    *)
(***************************************************************************)
StrTokens(ss) == [i \in 1..Len(ss) |-> StrTok(ss[i])]

\* if value is not None: command.extend([str(keyword), str(value)])
keyword_value(keyword, value) ==
    IF IsNone(value) THEN <<>> ELSE <<StrTok(keyword), StrTok(Val(value))>>

\* keyword_list that sends no count for an empty list
keyword_list_empty_uncounted(keyword, values) ==
    IF IsNone(values) THEN <<>>
    ELSE IF Len(Val(values)) = 0 THEN <<StrTok(keyword)>>
    ELSE <<StrTok(keyword), IntTok(Len(Val(values)))>> \o StrTokens(Val(values))

\* if values is not None: command.extend([str(keyword), len(values), *values])
keyword_list(keyword, values) ==
    IF IsNone(values) THEN <<>>
    ELSE <<StrTok(keyword), IntTok(Len(Val(values)))>> \o StrTokens(Val(values))

create_head(a) ==
    <<StrTok(FullTextCommands.CREATE), StrTok(a.index_name), StrTok(CommandCreateParameters.ON), StrTok(a.on)>>

\* score_out_of_range with the bounds excluded
score_out_of_range_strict(score) == score <= 0 \/ score >= 10

\* score < 0 or score > 1, for score = float(score) in tenths
score_out_of_range(score) == score < 0 \/ score > 10

create_score(a) ==
    IF IsNone(a.score) THEN <<>>
    ELSE <<StrTok(CommandCreateParameters.SCORE), StrTok(str_float(py_float(Val(a.score))))>>

create_temporary(a) ==
    IF IsNone(a.temporary) THEN <<>>
    ELSE <<StrTok(CommandCreateParameters.TEMPORARY), IntTok(py_int(Val(a.temporary)))>>

\* create_flags that tests NO_OFFSETS before NO_HIGHLIGHTS
create_flags_offsets_before_highlights(a) ==
    (IF FlagIn(CreateFlags.MAX_TEXT_FIELDS, a.flags) THEN <<StrTok(CommandCreateParameters.MAXTEXTFIELDS)>> ELSE <<>>)
    \o (IF FlagIn(CreateFlags.NO_FIELDS, a.flags) THEN <<StrTok(CommandCreateParameters.NOFIELDS)>> ELSE <<>>)
    \o (IF FlagIn(CreateFlags.NO_FREQUENCIES, a.flags) THEN <<StrTok(CommandCreateParameters.NOFREQS)>> ELSE <<>>)
    \o (IF FlagIn(CreateFlags.NO_OFFSETS, a.flags) THEN <<StrTok(CommandCreateParameters.NOOFFSETS)>> ELSE <<>>)
    \o (IF FlagIn(CreateFlags.NO_HIGHLIGHTS, a.flags) THEN <<StrTok(CommandCreateParameters.NOHL)>> ELSE <<>>)
    \o (IF FlagIn(CreateFlags.SKIP_INITIAL_SCAN, a.flags) THEN <<StrTok(CommandCreateParameters.SKIPINITIALSCAN)>> ELSE <<>>)

create_flags(a) ==
    (IF FlagIn(CreateFlags.MAX_TEXT_FIELDS, a.flags) THEN <<StrTok(CommandCreateParameters.MAXTEXTFIELDS)>> ELSE <<>>)
    \o (IF FlagIn(CreateFlags.NO_FIELDS, a.flags) THEN <<StrTok(CommandCreateParameters.NOFIELDS)>> ELSE <<>>)
    \o (IF FlagIn(CreateFlags.NO_FREQUENCIES, a.flags) THEN <<StrTok(CommandCreateParameters.NOFREQS)>> ELSE <<>>)
    \o (IF FlagIn(CreateFlags.NO_HIGHLIGHTS, a.flags) THEN <<StrTok(CommandCreateParameters.NOHL)>> ELSE <<>>)
    \o (IF FlagIn(CreateFlags.NO_OFFSETS, a.flags) THEN <<StrTok(CommandCreateParameters.NOOFFSETS)>> ELSE <<>>)
    \o (IF FlagIn(CreateFlags.SKIP_INITIAL_SCAN, a.flags) THEN <<StrTok(CommandCreateParameters.SKIPINITIALSCAN)>> ELSE <<>>)

create_schema(a) == <<StrTok(CommandCreateParameters.SCHEMA)>> \o Flatten(a.fields)

\* create_command with TEMPORARY appended before STOPWORDS
create_command_temporary_before_stopwords(a) ==
    IF ~IsNone(a.score) /\ score_out_of_range(py_float(Val(a.score)))
    THEN Raises("ValueError", "score must be between 0.0 and 1.0, got " \o str_float(py_float(Val(a.score))))
    ELSE Returns(create_head(a)
                 \o keyword_list(CommandCreateParameters.PREFIX, a.prefixes)
                 \o keyword_value(CommandCreateParameters.FILTER, a.filter)
                 \o keyword_value(CommandCreateParameters.LANGUAGE, a.language)
                 \o keyword_value(CommandCreateParameters.LANGUAGE_FIELD, a.language_field)
                 \o keyword_value(CommandCreateParameters.PAYLOAD_FIELD, a.payload_field)
                 \o create_score(a)
                 \o keyword_value(CommandCreateParameters.SCORE_FIELD, a.score_field)
                 \o create_temporary(a)
                 \o keyword_list(CommandCreateParameters.STOPWORDS, a.stopwords)
                 \o create_flags(a)
                 \o create_schema(a))

\* the command create() hands to execute, or the ValueError it raises
create_command(a) ==
    IF ~IsNone(a.score) /\ score_out_of_range(py_float(Val(a.score)))
    THEN Raises("ValueError", "score must be between 0.0 and 1.0, got " \o str_float(py_float(Val(a.score))))
    ELSE Returns(create_head(a)
                 \o keyword_list(CommandCreateParameters.PREFIX, a.prefixes)
                 \o keyword_value(CommandCreateParameters.FILTER, a.filter)
                 \o keyword_value(CommandCreateParameters.LANGUAGE, a.language)
                 \o keyword_value(CommandCreateParameters.LANGUAGE_FIELD, a.language_field)
                 \o keyword_value(CommandCreateParameters.PAYLOAD_FIELD, a.payload_field)
                 \o create_score(a)
                 \o keyword_value(CommandCreateParameters.SCORE_FIELD, a.score_field)
                 \o keyword_list(CommandCreateParameters.STOPWORDS, a.stopwords)
                 \o create_temporary(a)
                 \o create_flags(a)
                 \o create_schema(a))

(***************************************************************************)
(* Errors.  An exception is [exc, text]: its class and str() of it.  The   *)
(* transport raises ResponseError(text) for an error reply of the server.  *)
(***************************************************************************)
Exception(exc, text) == [exc |-> exc, text |-> text]
ResponseError(text) == Exception("ResponseError", text)

\* _check_index_exists_error without lower()
_check_index_exists_error_case_sensitive(exc) ==
    IF str_contains(ErrorResponses.INDEX_ALREADY_EXISTS, exc.text)
    THEN Exception("IndexExistsError", exc.text)
    ELSE exc

\* redicalsearch/mixin.py
_check_index_exists_error(exc) ==
    IF str_contains(ErrorResponses.INDEX_ALREADY_EXISTS, str_lower(exc.text))
    THEN Exception("IndexExistsError", exc.text)
    ELSE exc

\* redicalsearch/mixin.py
_check_unknown_index_error(exc) ==
    IF str_contains(ErrorResponses.UNKNOWN_INDEX, str_lower(exc.text))
    THEN Exception("UnknownIndexError", exc.text)
    ELSE exc

\* redicalsearch/client.py
client_check_index_exists_error(exc) ==
    IF str_contains("index already exists", str_lower(exc.text))
    THEN Exception("IndexExistsError", exc.text)
    ELSE exc

\* redicalsearch/client.py, Commands.info: the except clause
client_info_error(exc, index_name) ==
    IF str_lower(exc.text) = ErrorResponses.UNKNOWN_INDEX
    THEN Exception("UnknownIndexError", index_name)
    ELSE exc

\* aioredisearch/client.py, RediSearch.add_document: the except clause
aio_add_document_error(exc, doc_id) ==
    IF str_lower(exc.text) = ErrorResponses.DOCUMENT_ALREADY_EXISTS
    THEN Exception("DocumentExists", doc_id)
    ELSE exc

\* aioredisearch/client.py, RediSearch.create_index: the except clause
aio_create_index_error(exc, index_name) ==
    IF str_lower(exc.text) = ErrorResponses.INDEX_ALREADY_EXISTS
    THEN Exception("IndexExists", index_name)
    ELSE exc

\* aioredisearch/client.py, RediSearch.info: the except clause
aio_info_error(exc, index_name) ==
    IF str_lower(exc.text) = ErrorResponses.UNKNOWN_INDEX
    THEN Exception("UnknownIndex", index_name)
    ELSE exc

(***************************************************************************)
(* Commands.search: the option blocks of FT.SEARCH.  The arguments are a   *)
(* record a; F is the SearchFlags class of the client.  A NumericFilter is *)
(* [field, minimum, maximum, flags], a GeoFilter [field, latitude,         *)
(* longitude, radius, units], a Summarize [field_names, fragment_total,    *)
(* fragment_length, separator], a Highlight [field_names, open_tag,        *)
(* close_tag]; limit and offset are Python values [type, n].               *)
(***************************************************************************)
search_head(a) ==
    <<StrTok(FullTextCommands.SEARCH), StrTok(a.index_name), StrTok(repr(a.query))>>

search_flags(F, a) ==
    (IF FlagIn(F.NO_CONTENT, a.flags) THEN <<StrTok(CommandSearchParameters.NOCONTENT)>> ELSE <<>>)
    \o (IF FlagIn(F.VERBATIM, a.flags) THEN <<StrTok(CommandSearchParameters.VERBATIM)>> ELSE <<>>)
    \o (IF FlagIn(F.NO_STOPWORDS, a.flags) THEN <<StrTok(CommandSearchParameters.NOSTOPWORDS)>> ELSE <<>>)
    \o (IF FlagIn(F.WITH_SCORES, a.flags) THEN <<StrTok(CommandSearchParameters.WITHSCORES)>> ELSE <<>>)
    \o (IF FlagIn(F.WITH_PAYLOADS, a.flags) THEN <<StrTok(CommandSearchParameters.WITHPAYLOADS)>> ELSE <<>>)
    \o (IF FlagIn(F.WITH_SORT_KEYS, a.flags) THEN <<StrTok(CommandSearchParameters.WITHSORTKEYS)>> ELSE <<>>)

\* numeric_filter_tokens without the exclusive prefix
numeric_filter_tokens_inclusive(filter_) ==
    <<StrTok(CommandSearchParameters.FILTER), StrTok(filter_.field),
      IF IsNone(filter_.minimum) THEN StrTok("-inf") ELSE FloatTok(Val(filter_.minimum)),
      IF IsNone(filter_.maximum) THEN StrTok("+inf") ELSE FloatTok(Val(filter_.maximum))>>

\* one FILTER block
numeric_filter_tokens(filter_) ==
    LET min_ == IF ~IsNone(filter_.minimum) /\ FlagIn(NumericFilterFlags.EXCLUSIVE_MIN, filter_.flags)
                THEN StrTok("(" \o str_float(Val(filter_.minimum)))
                ELSE IF ~IsNone(filter_.minimum) THEN FloatTok(Val(filter_.minimum))
                ELSE StrTok("-inf")
        max_ == IF ~IsNone(filter_.maximum) /\ FlagIn(NumericFilterFlags.EXCLUSIVE_MAX, filter_.flags)
                THEN StrTok("(" \o str_float(Val(filter_.maximum)))
                ELSE IF ~IsNone(filter_.maximum) THEN FloatTok(Val(filter_.maximum))
                ELSE StrTok("+inf")
    IN  <<StrTok(CommandSearchParameters.FILTER), StrTok(filter_.field), min_, max_>>

search_numeric_filter(a) ==
    IF IsNone(a.numeric_filter) THEN <<>>
    ELSE Flatten([i \in 1..Len(Val(a.numeric_filter)) |-> numeric_filter_tokens(Val(a.numeric_filter)[i])])

search_geo_filter(a) ==
    IF IsNone(a.geo_filter) THEN <<>>
    ELSE LET g == Val(a.geo_filter)
         IN  <<StrTok(CommandSearchParameters.GEOFILTER), StrTok(g.field), FloatTok(g.longitude),
               FloatTok(g.latitude), FloatTok(g.radius), StrTok(g.units)>>

search_summarize(a) ==
    IF IsNone(a.summarize) THEN <<>>
    ELSE LET s == Val(a.summarize)
         IN  <<StrTok(CommandSearchParameters.SUMMARIZE)>>
             \o keyword_list(CommandSearchParameters.FIELDS, s.field_names)
             \o (IF IsNone(s.fragment_total) THEN <<>>
                 ELSE <<StrTok(CommandSearchParameters.FRAGS), IntTok(Val(s.fragment_total))>>)
             \o (IF IsNone(s.fragment_length) THEN <<>>
                 ELSE <<StrTok(CommandSearchParameters.LEN), IntTok(Val(s.fragment_length))>>)
             \o (IF IsNone(s.separator) THEN <<>>
                 ELSE <<StrTok(CommandSearchParameters.SEPARATOR), StrTok(repr(Val(s.separator)))>>)

\* search_highlight that sends TAGS as soon as one of the tags is set
search_highlight_either_tag(a) ==
    IF IsNone(a.highlight) THEN <<>>
    ELSE LET h == Val(a.highlight)
             tag(o) == IF IsNone(o) THEN "" ELSE Val(o)
         IN  <<StrTok(CommandSearchParameters.HIGHLIGHT)>>
             \o keyword_list(CommandSearchParameters.FIELDS, h.field_names)
             \o (IF ~IsNone(h.close_tag) \/ ~IsNone(h.open_tag)
                 THEN <<StrTok(CommandSearchParameters.TAGS), StrTok(tag(h.open_tag)), StrTok(tag(h.close_tag))>>
                 ELSE <<>>)

search_highlight(a) ==
    IF IsNone(a.highlight) THEN <<>>
    ELSE LET h == Val(a.highlight)
         IN  <<StrTok(CommandSearchParameters.HIGHLIGHT)>>
             \o keyword_list(CommandSearchParameters.FIELDS, h.field_names)
             \o (IF ~IsNone(h.close_tag) /\ ~IsNone(h.open_tag)
                 THEN <<StrTok(CommandSearchParameters.TAGS), StrTok(Val(h.open_tag)), StrTok(Val(h.close_tag))>>
                 ELSE <<>>)

search_slop(a) ==
    IF IsNone(a.slop) THEN <<>> ELSE <<StrTok(CommandSearchParameters.SLOP), IntTok(Val(a.slop))>>

search_in_order(F, a) ==
    IF FlagIn(F.IN_ORDER, a.flags) THEN <<StrTok(CommandSearchParameters.INORDER)>> ELSE <<>>

\* search_sort_by where DESC prevails over ASC
search_sort_by_desc_first(F, a) ==
    IF IsNone(a.sort_by) THEN <<>>
    ELSE <<StrTok(CommandSearchParameters.SORTBY), StrTok(Val(a.sort_by))>>
         \o (IF FlagIn(F.DESC, a.flags) THEN <<StrTok(CommandSearchParameters.DESC)>>
             ELSE IF FlagIn(F.ASC, a.flags) THEN <<StrTok(CommandSearchParameters.ASC)>>
             ELSE <<>>)

search_sort_by(F, a) ==
    IF IsNone(a.sort_by) THEN <<>>
    ELSE <<StrTok(CommandSearchParameters.SORTBY), StrTok(Val(a.sort_by))>>
         \o (IF FlagIn(F.ASC, a.flags) THEN <<StrTok(CommandSearchParameters.ASC)>>
             ELSE IF FlagIn(F.DESC, a.flags) THEN <<StrTok(CommandSearchParameters.DESC)>>
             ELSE <<>>)

\* search_options with INORDER appended before SLOP
search_options_in_order_before_slop(F, a) ==
    search_flags(F, a)
    \o search_numeric_filter(a)
    \o search_geo_filter(a)
    \o keyword_list(CommandSearchParameters.INKEYS, a.in_keys)
    \o keyword_list(CommandSearchParameters.INFIELDS, a.in_fields)
    \o keyword_list(CommandSearchParameters.RETURN, a.return_fields)
    \o search_summarize(a)
    \o search_highlight(a)
    \o search_in_order(F, a)
    \o search_slop(a)
    \o keyword_value(CommandSearchParameters.LANGUAGE, a.language)
    \o keyword_value(CommandSearchParameters.EXPANDER, a.expander)
    \o keyword_value(CommandSearchParameters.SCORER, a.scorer)
    \o keyword_value(CommandSearchParameters.PAYLOAD, a.payload)
    \o search_sort_by(F, a)

\* the option blocks between the query and LIMIT, in the order search() appends them
search_options(F, a) ==
    search_flags(F, a)
    \o search_numeric_filter(a)
    \o search_geo_filter(a)
    \o keyword_list(CommandSearchParameters.INKEYS, a.in_keys)
    \o keyword_list(CommandSearchParameters.INFIELDS, a.in_fields)
    \o keyword_list(CommandSearchParameters.RETURN, a.return_fields)
    \o search_summarize(a)
    \o search_highlight(a)
    \o search_slop(a)
    \o search_in_order(F, a)
    \o keyword_value(CommandSearchParameters.LANGUAGE, a.language)
    \o keyword_value(CommandSearchParameters.EXPANDER, a.expander)
    \o keyword_value(CommandSearchParameters.SCORER, a.scorer)
    \o keyword_value(CommandSearchParameters.PAYLOAD, a.payload)
    \o search_sort_by(F, a)

\* search_limit that sends LIMIT only when the window is not the default one
search_limit_when_changed(a) ==
    IF a.offset = PyInt(0) /\ a.limit = PyInt(10) THEN <<>>
    ELSE <<StrTok(CommandSearchParameters.LIMIT), IntTok(a.offset.n), IntTok(a.limit.n)>>

\* redicalsearch/mixin.py: limit and offset are ints, LIMIT is always sent
search_limit(a) ==
    <<StrTok(CommandSearchParameters.LIMIT), IntTok(a.offset.n), IntTok(a.limit.n)>>

\* search_command without the isinstance checks
search_command_unchecked(a) ==
    Returns(search_head(a) \o search_options(SearchFlags, a) \o search_limit(a))

\* redicalsearch/mixin.py, Commands.search: the command, or the TypeError it raises
search_command(a) ==
    IF ~is_int(a.limit) THEN Raises("TypeError", "'limit' expected to be integer")
    ELSE IF ~is_int(a.offset) THEN Raises("TypeError", "'offset' expected to be integer")
    ELSE Returns(search_head(a) \o search_options(SearchFlags, a) \o search_limit(a))

\* redicalsearch/client.py and aioredisearch/client.py: limit is an Optional pair
\* (offset, limit) of values int() is applied to
client_search_limit(a) ==
    IF IsNone(a.limit) THEN <<>>
    ELSE <<StrTok(CommandSearchParameters.LIMIT), IntTok(py_int(Val(a.limit)[1])), IntTok(py_int(Val(a.limit)[2]))>>

\* redicalsearch/client.py, Commands.search
client_search_command(a) ==
    Returns(search_head(a) \o search_options(ClientSearchFlags, a) \o client_search_limit(a))

\* aioredisearch/client.py, RediSearch.search
aio_search_command(a) ==
    Returns(search_head(a) \o search_options(ClientSearchFlags, a) \o client_search_limit(a))

(***************************************************************************)
(* aioredisearch/field.py: the keyword-argument fields.  Every parameter   *)
(* is stringified.                                                         *)
(***************************************************************************)
VALID_PHONETIC_MATCHERS == {"dm:en", "dm:fr", "dm:pt", "dm:es"}

\* AioField that accepts a field that is neither sortable nor indexed
AioField_unchecked(name, parameters, no_index, sortable) ==
    Returns(<<StrTok(name)>> \o parameters
            \o (IF sortable THEN <<StrTok(FieldParameters.SORTABLE)>> ELSE <<>>)
            \o (IF no_index THEN <<StrTok(FieldParameters.NOINDEX)>> ELSE <<>>))

\* Field.__init__: parameters are the tokens after the name
AioField(name, parameters, no_index, sortable) ==
    IF ~sortable /\ no_index
    THEN Raises("ValueError", "Fields must be sortable or be indexed")
    ELSE Returns(<<StrTok(name)>> \o parameters
               \o (IF sortable THEN <<StrTok(FieldParameters.SORTABLE)>> ELSE <<>>)
               \o (IF no_index THEN <<StrTok(FieldParameters.NOINDEX)>> ELSE <<>>))

AioGeoField(name, no_index, sortable) ==
    AioField(name, <<StrTok(FieldTypes.GEO)>>, no_index, sortable)

AioNumericField(name, no_index, sortable) ==
    AioField(name, <<StrTok(FieldTypes.NUMERIC)>>, no_index, sortable)

AioTagField(name, no_index, separator, sortable) ==
    IF ~IsNone(separator) /\ Len(Val(separator)) > 1
    THEN Raises("ValueError", "Separator longer than one character: " \o repr(Val(separator)))
    ELSE AioField(name,
                  <<StrTok(FieldTypes.TAG)>>
                  \o (IF IsNone(separator) THEN <<>>
                      ELSE <<StrTok(FieldParameters.SEPARATOR), StrTok(Val(separator))>>),
                  no_index, sortable)

\* phonetic_matcher is an Optional str, weight an Optional number
AioTextField(name, no_index, no_stem, phonetic_matcher, sortable, weight) ==
    IF ~IsNone(phonetic_matcher) /\ Val(phonetic_matcher) \notin VALID_PHONETIC_MATCHERS
    THEN Raises("ValueError", "Invalid phonetic matcher: " \o repr(Val(phonetic_matcher)))
    ELSE AioField(name,
                  <<StrTok(FieldTypes.TEXT)>>
                  \o (IF no_stem THEN <<StrTok(FieldParameters.NOSTEM)>> ELSE <<>>)
                  \o (IF IsNone(weight) THEN <<>>
                      ELSE <<StrTok(FieldParameters.WEIGHT), StrTok(py_str(Val(weight)))>>)
                  \o (IF IsNone(phonetic_matcher) THEN <<>>
                      ELSE <<StrTok(FieldParameters.PHONETIC), StrTok(Val(phonetic_matcher))>>),
                  no_index, sortable)

(***************************************************************************)
(* aioredisearch/client.py, RediSearch.create_index.  The index name is    *)
(* the client's; temporary is a number.                                    *)
(***************************************************************************)
\* create_index_flags in the order of the redicalsearch create
create_index_flags_alphabetical(a) ==
    (IF FlagIn(CreateFlags.NO_FIELDS, a.flags) THEN <<StrTok(CommandCreateParameters.NOFIELDS)>> ELSE <<>>)
    \o (IF FlagIn(CreateFlags.NO_FREQUENCIES, a.flags) THEN <<StrTok(CommandCreateParameters.NOFREQS)>> ELSE <<>>)
    \o (IF FlagIn(CreateFlags.NO_HIGHLIGHTS, a.flags) THEN <<StrTok(CommandCreateParameters.NOHL)>> ELSE <<>>)
    \o (IF FlagIn(CreateFlags.NO_OFFSETS, a.flags) THEN <<StrTok(CommandCreateParameters.NOOFFSETS)>> ELSE <<>>)

create_index_flags(a) ==
    (IF FlagIn(CreateFlags.NO_OFFSETS, a.flags) THEN <<StrTok(CommandCreateParameters.NOOFFSETS)>> ELSE <<>>)
    \o (IF FlagIn(CreateFlags.NO_HIGHLIGHTS, a.flags) THEN <<StrTok(CommandCreateParameters.NOHL)>> ELSE <<>>)
    \o (IF FlagIn(CreateFlags.NO_FIELDS, a.flags) THEN <<StrTok(CommandCreateParameters.NOFIELDS)>> ELSE <<>>)
    \o (IF FlagIn(CreateFlags.NO_FREQUENCIES, a.flags) THEN <<StrTok(CommandCreateParameters.NOFREQS)>> ELSE <<>>)

create_index_command(a) ==
    Returns(<<StrTok(FullTextCommands.CREATE), StrTok(a.index_name)>>
            \o (IF FlagIn(CreateFlags.MAX_TEXT_FIELDS, a.flags)
                THEN <<StrTok(CommandCreateParameters.MAXTEXTFIELDS)>> ELSE <<>>)
            \o (IF a.temporary.n > 0
                THEN <<StrTok(CommandCreateParameters.TEMPORARY), StrTok(py_str(a.temporary))>> ELSE <<>>)
            \o create_index_flags(a)
            \o (IF IsNone(a.stopwords) THEN <<>>
                ELSE <<StrTok(CommandCreateParameters.STOPWORDS), StrTok(str_int(Len(Val(a.stopwords))))>>
                     \o StrTokens(Val(a.stopwords)))
            \o <<StrTok(CommandCreateParameters.SCHEMA)>> \o Flatten(a.fields))

(***************************************************************************)
(* aioredisearch/client.py, RediSearch.add_document.  a.fields is the      *)
(* sequence of (field, value) pairs, a value being a token whose v is      *)
(* str(value); score is a number; replace is an Optional ReplaceOptions.   *)
(***************************************************************************)
add_document_replace(a) ==
    IF IsNone(a.replace) THEN <<>>
    ELSE IF Val(a.replace) = ReplaceOptions.DEFAULT
    THEN <<StrTok(CommandAddParameters.REPLACE)>>
    ELSE IF Val(a.replace) = ReplaceOptions.PARTIAL
    THEN <<StrTok(CommandAddParameters.REPLACE), StrTok(CommandAddParameters.PARTIAL)>>
    ELSE IF Val(a.replace) = ReplaceOptions.NO_CREATE
    THEN <<StrTok(CommandAddParameters.REPLACE), StrTok(CommandAddParameters.NOCREATE)>>
    ELSE IF FlagIn(ReplaceOptions.PARTIAL, a.replace) /\ FlagIn(ReplaceOptions.NO_CREATE, a.replace)
    THEN <<StrTok(CommandAddParameters.REPLACE), StrTok(CommandAddParameters.PARTIAL),
           StrTok(CommandAddParameters.NOCREATE)>>
    ELSE <<>>

\* add_document_pair that leaves every value as str() gives it
add_document_pair_unquoted(pair) == <<StrTok(pair[1]), StrTok(pair[2].v)>>

\* one (field, value) pair of the FIELDS section
add_document_pair(pair) ==
    LET value == pair[2].v
    IN  <<StrTok(pair[1]), StrTok(IF str_contains(" ", value) THEN repr(value) ELSE value)>>

\* add_document_tokens with LANGUAGE appended before the replace tokens
add_document_tokens_language_first(a) ==
    <<StrTok(FullTextCommands.ADD), StrTok(a.index_name), StrTok(a.doc_id), StrTok(py_str(a.score))>>
    \o (IF a.no_save THEN <<StrTok(CommandAddParameters.NOSAVE)>> ELSE <<>>)
    \o (IF IsNone(a.language) THEN <<>>
        ELSE <<StrTok(CommandAddParameters.LANGUAGE), StrTok(Val(a.language))>>)
    \o add_document_replace(a)
    \o (IF IsNone(a.payload) THEN <<>>
        ELSE <<StrTok(CommandAddParameters.PAYLOAD), StrTok(Val(a.payload))>>)
    \o (IF IsNone(a.replace_condition) THEN <<>>
        ELSE <<StrTok(CommandAddParameters.IF_), StrTok(repr(Val(a.replace_condition)))>>)
    \o <<StrTok(CommandAddParameters.FIELDS)>>
    \o Flatten([i \in 1..Len(a.fields) |-> add_document_pair(a.fields[i])])

\* the tokens of FT.ADD, in the order add_document() appends them
add_document_tokens(a) ==
    <<StrTok(FullTextCommands.ADD), StrTok(a.index_name), StrTok(a.doc_id), StrTok(py_str(a.score))>>
    \o (IF a.no_save THEN <<StrTok(CommandAddParameters.NOSAVE)>> ELSE <<>>)
    \o add_document_replace(a)
    \o (IF IsNone(a.language) THEN <<>>
        ELSE <<StrTok(CommandAddParameters.LANGUAGE), StrTok(Val(a.language))>>)
    \o (IF IsNone(a.payload) THEN <<>>
        ELSE <<StrTok(CommandAddParameters.PAYLOAD), StrTok(Val(a.payload))>>)
    \o (IF IsNone(a.replace_condition) THEN <<>>
        ELSE <<StrTok(CommandAddParameters.IF_), StrTok(repr(Val(a.replace_condition)))>>)
    \o <<StrTok(CommandAddParameters.FIELDS)>>
    \o Flatten([i \in 1..Len(a.fields) |-> add_document_pair(a.fields[i])])

\* add_document_command that accepts a call without pairs when no_save is set
add_document_command_no_save_unchecked(a) ==
    IF Len(a.fields) = 0 /\ ~a.no_save
    THEN Raises("ValueError", "Field/value pairs must be supplied")
    ELSE Returns(add_document_tokens(a))

\* aioredisearch/client.py, RediSearch.add_document: the command, or the
\* ValueError it raises
add_document_command(a) ==
    IF Len(a.fields) = 0
    THEN Raises("ValueError", "Field/value pairs must be supplied")
    ELSE Returns(add_document_tokens(a))

(***************************************************************************)
(* FT.GET and FT.INFO.                                                     *)
(***************************************************************************)
\* redicalsearch/client.py, Commands.get_document
get_document_command(index_name, document_id) ==
    Returns(<<StrTok(FullTextCommands.GET), StrTok(index_name), StrTok(document_id)>>)

\* Commands.info and RediSearch.info
info_command(index_name) == Returns(<<StrTok(FullTextCommands.INFO), StrTok(index_name)>>)

(***************************************************************************)
(* Reply decoding.                                                         *)
(***************************************************************************)

\* the indexes range(0, len(raw), 2) visits, counted from 1
PairStarts(raw) == {i \in 1..Len(raw) : i % 2 = 1}

\* {raw[i]: raw[i + 1] for i in range(0, len(raw), 2)} where every raw[i + 1] exists:
\* a later pair replaces an earlier one with the same key
fold_pairs(raw) ==
    [k \in {raw[i] : i \in PairStarts(raw)} |->
        raw[(CHOOSE i \in PairStarts(raw) :
                /\ raw[i] = k
                /\ \A j \in PairStarts(raw) : raw[j] = k => j <= i) + 1]]

\* the comprehension raises IndexError when the last key has no value
pairs_complete(raw) == Len(raw) % 2 = 0

\* get_document_result that returns an empty mapping for a nil reply
get_document_result_nil_as_empty(reply, document_id) ==
    IF reply.kind = "nil" THEN Returns(<<>>)
    ELSE IF ~pairs_complete(Val(reply.value)) THEN Raises("IndexError", "list index out of range")
    ELSE Returns(fold_pairs(Val(reply.value)))

\* redicalsearch/client.py, Commands.get_document: reply is [nil, value]
get_document_result(reply, document_id) ==
    IF reply.kind = "nil" THEN Raises("DocumentNotFoundError", document_id)
    ELSE IF ~pairs_complete(Val(reply.value)) THEN Raises("IndexError", "list index out of range")
    ELSE Returns(fold_pairs(Val(reply.value)))

\* format_field_defs that takes the type from element 1, the keyword before it
format_field_defs_type_keyword(v) ==
    [name \in {v[i][1] : i \in 1..Len(v)} |->
        LET i == CHOOSE i \in 1..Len(v) : v[i][1] = name /\ \A j \in 1..Len(v) : v[j][1] = name => j <= i
        IN  [type |-> v[i][2], options |-> SubSeq(v[i], 4, Len(v[i]))]]

\* IndexInfo.format_field_defs
format_field_defs(v) ==
    [name \in {v[i][1] : i \in 1..Len(v)} |->
        LET i == CHOOSE i \in 1..Len(v) : v[i][1] = name /\ \A j \in 1..Len(v) : v[j][1] = name => j <= i
        IN  [type |-> v[i][3], options |-> SubSeq(v[i], 4, Len(v[i]))]]

\* IndexInfo.format_definition
format_definition(v) ==
    LET mapped == fold_pairs(v)
    IN  [prefixes |-> SelectSeq(mapped["prefixes"], LAMBDA prefix : prefix # "")]

\* int(s) for a str of digits
RECURSIVE int_of_str(_)
int_of_str(s) ==
    IF Len(s) = 0 THEN 0
    ELSE 10 * int_of_str(SubSeq(s, 1, Len(s) - 1))
         + ((CHOOSE i \in 1..10 : SubSeq(Digits, i, i) = SubSeq(s, Len(s), Len(s))) - 1)

\* redicalsearch/model.py, IndexInfo(**mapped)
IndexInfo(mapped) ==
    LET required == {"index_name", "index_definition", "index_options", "fields",
                     "hash_indexing_failures", "num_docs", "num_terms", "num_records", "percent_indexed"}
    IN
    IF ~(required \subseteq DOMAIN mapped)
    THEN Raises("ValidationError", "field required")
    ELSE Returns([name |-> mapped["index_name"],
                  definition |-> format_definition(mapped["index_definition"]),
                  options |-> mapped["index_options"],
                  field_defs |-> format_field_defs(mapped["fields"]),
                  hash_indexing_failures |-> int_of_str(mapped["hash_indexing_failures"]),
                  number_of_documents |-> int_of_str(mapped["num_docs"]),
                  number_of_terms |-> int_of_str(mapped["num_terms"]),
                  number_of_records |-> int_of_str(mapped["num_records"]),
                  percent_indexed |-> 10 * int_of_str(mapped["percent_indexed"])])

\* aioredisearch/model.py, IndexInfo(**mapped)
AioIndexInfo(mapped) ==
    LET required == {"index_name", "index_options", "fields", "num_docs", "num_terms", "num_records"}
    IN
    IF ~(required \subseteq DOMAIN mapped)
    THEN Raises("ValidationError", "field required")
    ELSE Returns([name |-> mapped["index_name"],
                  options |-> mapped["index_options"],
                  field_defs |-> format_field_defs(mapped["fields"]),
                  number_of_documents |-> int_of_str(mapped["num_docs"]),
                  number_of_terms |-> int_of_str(mapped["num_terms"]),
                  number_of_records |-> int_of_str(mapped["num_records"])])

\* redicalsearch/mixin.py
_convert_index_info(response) ==
    IF ~pairs_complete(response) THEN Raises("IndexError", "list index out of range")
    ELSE IndexInfo(fold_pairs(response))

\* the indexes range(1, len(response[1:]), 2) visits, counted from 1
DocumentStarts(response) == {i \in 2..(Len(response) - 1) : i % 2 = 0}

\* the n-th smallest member of a set of numbers
RECURSIVE Nth(_, _)
Nth(S, n) ==
    LET m == CHOOSE m \in S : \A o \in S : m <= o
    IN  IF n = 1 THEN m ELSE Nth(S \ {m}, n - 1)

\* dict(id=id_, **dict(_document_cls=None, **{fields[y]: fields[y + 1] ...})): the
\* document is one mapping that holds the id and the fields, and a field named
\* like a keyword argument is a TypeError
search_document(id_, fields) ==
    IF ~pairs_complete(fields) THEN Raises("IndexError", "list index out of range")
    ELSE IF \E y \in PairStarts(fields) : fields[y] = "_document_cls"
    THEN Raises("TypeError", "dict() got multiple values for keyword argument '_document_cls'")
    ELSE IF \E y \in PairStarts(fields) : fields[y] = "id"
    THEN Raises("TypeError", "dict() got multiple values for keyword argument 'id'")
    ELSE LET mapped == fold_pairs(fields)
         IN  Returns([k \in {"id"} \cup DOMAIN mapped |-> IF k = "id" THEN id_ ELSE mapped[k]])

\* redicalsearch/mixin.py, _convert_search_result: the documents are built in
\* the order of the reply and the first one that raises ends the decoding
_convert_search_result(offset, limit, response) ==
    LET starts == DocumentStarts(response)
        built == [n \in 1..Cardinality(starts) |->
                    search_document(response[Nth(starts, n)], response[Nth(starts, n) + 1])]
        failed == {n \in 1..Len(built) : built[n].raised}
    IN  IF failed # {}
        THEN built[Nth(failed, 1)]
        ELSE LET formatted == [n \in 1..Len(built) |-> built[n].value]
             IN  Returns([documents |-> formatted, count |-> Len(formatted), total |-> response[1],
                          offset |-> offset, limit |-> limit])

\* redicalsearch/client.py, Commands.info: the decoding after execute
client_info_result(res) ==
    IF ~pairs_complete(res) THEN Raises("IndexError", "list index out of range")
    ELSE IndexInfo(fold_pairs(res))

\* aioredisearch/client.py, RediSearch.info: the decoding after execute_command
aio_info_result(res) ==
    IF ~pairs_complete(res) THEN Raises("IndexError", "list index out of range")
    ELSE AioIndexInfo(fold_pairs(res))

\* redicalsearch/client.py, Commands.search: a document is [document_id,
\* document], the document dict(_document_cls=None, **{fields}); a field named
\* _document_cls is a TypeError, and the first document that raises ends the
\* decoding.  SearchResult.check_model pops _document_cls from the outer
\* mapping only, so every document keeps the key with the value None.
client_search_document(id_, fields) ==
    IF ~pairs_complete(fields) THEN Raises("IndexError", "list index out of range")
    ELSE IF \E y \in PairStarts(fields) : fields[y] = "_document_cls"
    THEN Raises("TypeError", "dict() got multiple values for keyword argument '_document_cls'")
    ELSE LET mapped == fold_pairs(fields)
         IN  Returns([document_id |-> id_,
                      document |-> [k \in {"_document_cls"} \cup DOMAIN mapped |->
                                        IF k = "_document_cls" THEN None ELSE mapped[k]]])

client_search_result(offset, limit, raw_results) ==
    LET starts == DocumentStarts(raw_results)
        built == [n \in 1..Cardinality(starts) |->
                    client_search_document(raw_results[Nth(starts, n)], raw_results[Nth(starts, n) + 1])]
        failed == {n \in 1..Len(built) : built[n].raised}
    IN  IF failed # {}
        THEN built[Nth(failed, 1)]
        ELSE LET formatted == [n \in 1..Len(built) |-> built[n].value]
             IN  Returns([documents |-> formatted, count |-> Len(formatted), total |-> raw_results[1],
                          offset |-> offset, limit |-> limit])

\* aioredisearch/client.py, RediSearch.search: a document is [document_id,
\* document], the document the folded fields; SearchResult names them results
aio_search_result(offset, limit, raw_results) ==
    LET starts == DocumentStarts(raw_results)
    IN  IF \E i \in starts : ~pairs_complete(raw_results[i + 1])
        THEN Raises("IndexError", "list index out of range")
        ELSE LET mapped == [n \in 1..Cardinality(starts) |->
                              LET i == Nth(starts, n)
                              IN  [document_id |-> raw_results[i],
                                   document |-> fold_pairs(raw_results[i + 1])]]
             IN  Returns([results |-> mapped, count |-> Len(mapped), total |-> raw_results[1],
                          offset |-> offset, limit |-> limit])

(***************************************************************************)
(* The caller and the transport.  A caller calls one operation at a time:  *)
(* the operation validates its arguments and hands one command to the      *)
(* transport's execute (pc = "awaiting"), the reply of the server arrives  *)
(* and is mapped to the operation's outcome (pc = "done"), and the caller  *)
(* takes the outcome (pc = "idle").                                        *)
(***************************************************************************)
VARIABLES
    pc,       \* "idle", "awaiting" or "done"
    call,     \* the operation called last: client, operation, index name, document id
    args,     \* the arguments of the call while it is in flight
    command,  \* the tokens handed to execute while the call is in flight
    nexec,    \* how many times the call has invoked execute
    reply,    \* the reply of the server to the command
    outcome   \* what the call raised or returned

vars == <<pc, call, args, command, nexec, reply, outcome>>

NoCall == [client |-> "", op |-> "", index_name |-> "", doc_id |-> ""]
NoArgs == [op |-> ""]
NoReply == [kind |-> "none", text |-> "", value |-> None]
NoOutcome == [kind |-> "none", exc |-> "", text |-> "", value |-> None]
RaisedOutcome(e) == [kind |-> "raised", exc |-> e.exc, text |-> e.text, value |-> None]
\* value is None until the call returns, then Some(the value returned)
ReturnedOutcome(v) == [kind |-> "returned", exc |-> "", text |-> "", value |-> Some(v)]

Init ==
    /\ pc = "idle"
    /\ call = NoCall
    /\ args = NoArgs
    /\ command = <<>>
    /\ nexec = 0
    /\ reply = NoReply
    /\ outcome = NoOutcome

(***************************************************************************)
(* The arguments the caller draws.  A call differs from the plain call of  *)
(* its operation in at most MaxSet arguments and flag members, or it sets  *)
(* every argument at once.                                                 *)
(***************************************************************************)
Range(s) == {s[i] : i \in 1..Len(s)}
Dev(x, plain) == IF x = plain THEN 0 ELSE 1
\* an optional argument drawn from S while fewer than MaxSet arguments are set
Opt(S, used) == IF used >= MaxSet THEN {None} ELSE {None} \cup {Some(v) : v \in S}
\* a required argument: the plain one, or one of S while fewer than MaxSet are set
Alt(plain, S, used) == IF used >= MaxSet THEN {plain} ELSE {plain} \cup S

\* the sequences of at most n distinct members of M: the orders of m1 | m2 | ...
RECURSIVE FlagOrders(_, _)
FlagOrders(M, n) ==
    IF n = 0 THEN {<<>>}
    ELSE LET P == FlagOrders(M, n - 1)
         IN  P \cup UNION {{Append(s, m) : m \in M \ Range(s)} : s \in {p \in P : Len(p) = n - 1}}

FlagsOf(order) == IF Len(order) = 0 THEN None ELSE Some(OrAll(order))
\* the members of the flags class F the names stand for
Members(F, names) == [i \in 1..Len(names) |-> F[names[i]]]

IndexNames == {"myindex", "shakespeare"}

PlainFields == <<TextField("myfield", None, None, None).value>>

\* create() with every keyword argument and every flag, the score inside and
\* outside the range
FullCreateArgs ==
    LET order == <<CreateFlags.SKIP_INITIAL_SCAN, CreateFlags.NO_OFFSETS, CreateFlags.NO_HIGHLIGHTS,
                   CreateFlags.NO_FREQUENCIES, CreateFlags.NO_FIELDS, CreateFlags.MAX_TEXT_FIELDS>>
    IN  {[op |-> "create", index_name |-> "myindex", fields |-> PlainFields, on |-> Structures.HASH,
          flag_order |-> order, flags |-> FlagsOf(order), prefixes |-> Some(<<"doc:", "aprefix:">>),
          filter |-> Some("@indexName==\"myindex\""), language |-> Some(Languages.CHINESE),
          language_field |-> Some("line"), payload_field |-> Some("myfield"), score |-> Some(sc),
          score_field |-> Some("line"), stopwords |-> Some(<<"a", "b">>), temporary |-> Some(PyInt(3))] :
            sc \in {PyFloat(5), PyInt(2)}}

(***************************************************************************)
(* The arguments of search.                                                *)
(***************************************************************************)
NumericFilter(field, minimum, maximum, flags) ==
    [field |-> field, minimum |-> minimum, maximum |-> maximum, flags |-> flags]
GeoFilter(field, latitude, longitude, radius, units) ==
    [field |-> field, latitude |-> latitude, longitude |-> longitude, radius |-> radius, units |-> units]
Summarize(field_names, fragment_total, fragment_length, separator) ==
    [field_names |-> field_names, fragment_total |-> fragment_total, fragment_length |-> fragment_length,
     separator |-> separator]
Highlight(field_names, open_tag, close_tag) ==
    [field_names |-> field_names, open_tag |-> open_tag, close_tag |-> close_tag]

\* search() with every keyword argument but limit and offset, and every member
\* of the flags class F
FullSearchArgs(F) ==
    LET order == <<"DESC", "ASC", "WITH_SORT_KEYS", "WITH_PAYLOADS", "WITH_SCORES", "NO_STOPWORDS",
                   "VERBATIM", "NO_CONTENT", "IN_ORDER", "EXPLAIN_SCORE">>
    IN  [op |-> "search", index_name |-> "shakespeare", query |-> "hello world",
         flag_order |-> order, flags |-> FlagsOf(Members(F, order)),
         numeric_filter |-> Some(<<NumericFilter("speech", Some(10), Some(55), None)>>),
         geo_filter |-> Some(GeoFilter("location", 125, 315, 100, GeoFilterUnits.KILOMETERS)),
         in_keys |-> Some(<<"doc1", "doc2">>), in_fields |-> Some(<<"line">>),
         return_fields |-> Some(<<"line", "speech">>),
         summarize |-> Some(Summarize(Some(<<"line">>), Some(3), Some(20), Some("..."))),
         highlight |-> Some(Highlight(Some(<<"line">>), Some("<b>"), Some("</b>"))),
         slop |-> Some(2), language |-> Some(Languages.CHINESE), expander |-> Some("myexpander"),
         scorer |-> Some("myscorer"), payload |-> Some("mypayload"), sort_by |-> Some("speech")]

(***************************************************************************)
(* The arguments of create_index and add_document.                         *)
(***************************************************************************)
AioPlainFields == <<AioTextField("myfield", FALSE, FALSE, None, FALSE, None).value>>
PlainPairs == <<<<"username", StrTok("arenthop")>>>>

(***************************************************************************)
(* The replies of the server.                                              *)
(***************************************************************************)
ErrorTexts == {
    "Index already exists", "INDEX ALREADY EXISTS", "index already exists",
    "ERR Index already exists", "Index already exists: myindex",
    "Document already exists", "DOCUMENT ALREADY EXISTS", "ERR document already exists",
    "Unknown Index name", "UNKNOWN INDEX NAME", "myindex: Unknown Index name",
    "Syntax error", ""}

\* an error reply, a value (value is Some(the value)), and the nil reply
ErrorReply(t) == [kind |-> "error", text |-> t, value |-> None]
ValueReply(v) == [kind |-> "value", text |-> "", value |-> Some(v)]
NilReply == [kind |-> "nil", text |-> "", value |-> None]
ErrorReplies == {ErrorReply(t) : t \in ErrorTexts}

\* FT.INFO of an index with one field; LegacyInfo is the reply of a server
\* that has no index_definition
LegacyInfo == <<
    "index_name", "myindex", "index_options", <<>>,
    "fields", <<<<"line", "type", "TEXT", "WEIGHT", "1", "SORTABLE">>>>,
    "num_docs", "12", "num_terms", "7", "num_records", "105">>
FullInfo == LegacyInfo \o <<
    "index_definition", <<"key_type", "HASH", "prefixes", <<"doc:", "">>, "default_score", "1">>,
    "hash_indexing_failures", "0", "percent_indexed", "1">>
\* the reply for an index with three fields, one of them without options
WideInfo == [i \in 1..Len(FullInfo) |->
    IF i = 6 THEN <<<<"title", "type", "TEXT", "WEIGHT", "1", "SORTABLE">>, <<"id", "type", "NUMERIC">>,
                    <<"tags", "type", "TAG", "SEPARATOR", ",">>>>
    ELSE FullInfo[i]]
InfoReplies == ErrorReplies \cup {ValueReply(FullInfo), ValueReply(LegacyInfo), ValueReply(WideInfo),
                                  ValueReply(SubSeq(WideInfo, 1, Len(LegacyInfo)))}

SearchReplies == {
    ErrorReply("Syntax error"),
    ValueReply(<<0>>),
    ValueReply(<<1, "doc1", <<"line", "hello">>>>),
    ValueReply(<<2, "doc1", <<"line", "hello">>, "doc2", <<"line", "world", "speech", "3">>>>),
    ValueReply(<<7, "doc1", <<>>, "doc2", <<"line", "world">>, "doc3", <<"speech", "3">>>>),
    ValueReply(<<1, "doc1", <<"line", "hello", "id", "5">>>>),
    ValueReply(<<1, "doc1", <<"line", "hello", "_document_cls", "x">>>>)}

\* the reply [total, id1, ..., idk] of a search with NOCONTENT as the decoders
\* read it: they take an element at an odd index for an id and index into the
\* element after it, a str, character by character.  Every id has an even
\* number of characters.
IdsOnlyReply(ids) ==
    <<Len(ids)>> \o [i \in 1..Len(ids) |->
                        IF i % 2 = 1 THEN ids[i] ELSE [c \in 1..Len(ids[i]) |-> SubSeq(ids[i], c, c)]]

(***************************************************************************)
(* What every operation does with the command it built and with the reply. *)
(***************************************************************************)
\* r is the command the operation built or the error its validation raised
Start(client, a, doc_id, r) ==
    /\ call' = [client |-> client, op |-> a.op, index_name |-> a.index_name, doc_id |-> doc_id]
    /\ args' = a
    /\ reply' = NoReply
    /\ IF r.raised
       THEN /\ pc' = "done"
            /\ command' = <<>>
            /\ nexec' = 0
            /\ outcome' = RaisedOutcome(r)
       ELSE /\ pc' = "awaiting"
            /\ command' = r.value
            /\ nexec' = 1
            /\ outcome' = NoOutcome

Awaiting(client, op) ==
    /\ pc = "awaiting"
    /\ call.client = client
    /\ call.op = op

Finish(r, o) ==
    /\ reply' = r
    /\ outcome' = o
    /\ pc' = "done"
    /\ args' = NoArgs
    /\ command' = <<>>
    /\ UNCHANGED <<call, nexec>>

DecodedOutcome(d) == IF d.raised THEN RaisedOutcome(d) ELSE ReturnedOutcome(d.value)

(***************************************************************************)
(* The calls of create and of search.                                      *)
(***************************************************************************)
\* the calls of create: redicalsearch/mixin.py and redicalsearch/client.py
\* have the same create
CreateCalls(client) ==
    \/ \E a \in FullCreateArgs : Start(client, a, "", create_command(a))
    \/ \E o \in FlagOrders({CreateFlags[m] : m \in DOMAIN CreateFlags}, MaxSet) :
       \E n \in Alt("myindex", IndexNames, Len(o)) :
       \E f \in Alt(PlainFields,
                    {<<>>,
                     <<TextField("line", Some(FieldFlags.SORTABLE), None, None).value,
                       NumericField("speech", Some(FieldFlags.SORTABLE)).value>>,
                     <<NumericField("speech", Some(FieldFlags.SORTABLE)).value,
                       TextField("line", Some(FieldFlags.SORTABLE), None, None).value>>},
                    Len(o) + Dev(n, "myindex")) :
       LET u2 == Len(o) + Dev(n, "myindex") + Dev(f, PlainFields) IN
       \E p \in Opt({<<>>, <<"doc:", "aprefix:">>}, u2) :
       \E fi \in Opt({"@indexName==\"myindex\""}, u2 + Len(p)) :
       LET u4 == u2 + Len(p) + Len(fi) IN
       \E la \in Opt({Languages.CHINESE}, u4) :
       \E lf \in Opt({"line"}, u4 + Len(la)) :
       LET u6 == u4 + Len(la) + Len(lf) IN
       \E pf \in Opt({"myfield"}, u6) :
       \E sc \in Opt({PyInt(-1), PyFloat(-1), PyInt(0), PyFloat(5), PyInt(1), PyFloat(11), PyInt(2)},
                     u6 + Len(pf)) :
       LET u8 == u6 + Len(pf) + Len(sc) IN
       \E sf \in Opt({"line"}, u8) :
       \E sw \in Opt({<<>>, <<"a", "b">>}, u8 + Len(sf)) :
       \E te \in Opt({PyInt(3)}, u8 + Len(sf) + Len(sw)) :
       LET a == [op |-> "create", index_name |-> n, fields |-> f, on |-> Structures.HASH,
                 flag_order |-> o, flags |-> FlagsOf(o), prefixes |-> p, filter |-> fi,
                 language |-> la, language_field |-> lf, payload_field |-> pf, score |-> sc,
                 score_field |-> sf, stopwords |-> sw, temporary |-> te]
       IN  Start(client, a, "", create_command(a))

\* the calls of search.  Commands.search of redicalsearch/mixin.py takes limit
\* and offset, the search of the two older clients a pair limit=(offset, limit)
SearchCalls(client) ==
    LET F == IF client = "mixin" THEN SearchFlags ELSE ClientSearchFlags
        \* the call with the arguments a, `used` of them set
        Do(a, used) ==
            IF client = "mixin"
            THEN \E limit \in Alt(PyInt(10), {PyInt(50), PyFloat(25)}, used) :
                 \E offset \in Alt(PyInt(0), {PyInt(5), PyFloat(5)}, used + Dev(limit, PyInt(10))) :
                    LET b == [x \in DOMAIN a \cup {"limit", "offset"} |->
                                IF x = "limit" THEN limit ELSE IF x = "offset" THEN offset ELSE a[x]]
                    IN  Start(client, b, "", search_command(b))
            ELSE \E limit \in Opt({<<PyInt(5), PyInt(50)>>, <<PyFloat(5), PyFloat(25)>>}, used) :
                    LET b == [x \in DOMAIN a \cup {"limit"} |-> IF x = "limit" THEN limit ELSE a[x]]
                    IN  Start(client, b, "",
                              IF client = "client" THEN client_search_command(b) ELSE aio_search_command(b))
    IN  \/ Do(FullSearchArgs(F), 0)
        \* a sorted search with each combination and order of ASC and DESC
        \/ \E o \in FlagOrders({"ASC", "DESC"}, 2) :
               Do([op |-> "search", index_name |-> "shakespeare", query |-> "foobar",
                   flag_order |-> o, flags |-> FlagsOf(Members(F, o)),
                   numeric_filter |-> None, geo_filter |-> None, in_keys |-> None, in_fields |-> None,
                   return_fields |-> None, summarize |-> None, highlight |-> None, slop |-> None,
                   language |-> None, expander |-> None, scorer |-> None, payload |-> None,
                   sort_by |-> Some("myfield")],
                  Len(o))
        \/ \E o \in FlagOrders(DOMAIN F, MaxSet) :
           \E n \in Alt("myindex", IndexNames, Len(o)) :
           \E q \in Alt("foobar", {"hello world", "it's"}, Len(o) + Dev(n, "myindex")) :
           LET u2 == Len(o) + Dev(n, "myindex") + Dev(q, "foobar") IN
           \E nf \in Opt({<<NumericFilter("speech", Some(10), Some(55), None)>>,
                          <<NumericFilter("speech", None, Some(55), Some(NumericFilterFlags.EXCLUSIVE_MAX)),
                            NumericFilter("scene", Some(10), None, Some(NumericFilterFlags.EXCLUSIVE_MIN))>>,
                          <<NumericFilter("field", None, Some(100),
                                          Some(BitOr(NumericFilterFlags.EXCLUSIVE_MIN,
                                                     NumericFilterFlags.EXCLUSIVE_MAX))),
                            NumericFilter("speech", Some(0 - 25), Some(0), Some(NumericFilterFlags.EXCLUSIVE_MIN))>>},
                         u2) :
           \E gf \in Opt({GeoFilter("location", 125, 315, 100, GeoFilterUnits.KILOMETERS)}, u2 + Len(nf)) :
           LET u4 == u2 + Len(nf) + Len(gf) IN
           \E ik \in Opt({<<>>, <<"doc1", "doc2">>}, u4) :
           \E inf \in Opt({<<>>, <<"line">>}, u4 + Len(ik)) :
           LET u6 == u4 + Len(ik) + Len(inf) IN
           \E rf \in Opt({<<>>, <<"line", "speech">>}, u6) :
           \E su \in Opt({Summarize(None, None, None, None), Summarize(Some(<<>>), None, None, None),
                          Summarize(Some(<<"line">>), Some(3), Some(20), Some("..."))}, u6 + Len(rf)) :
           LET u8 == u6 + Len(rf) + Len(su) IN
           \E hi \in Opt({Highlight(None, None, None), Highlight(Some(<<>>), None, None),
                          Highlight(Some(<<"line">>), Some("<b>"), Some("</b>")),
                          Highlight(None, Some("<b>"), None),
                          Highlight(Some(<<"line", "speech">>), None, Some("</b>"))}, u8) :
           \E sl \in Opt({2}, u8 + Len(hi)) :
           LET u10 == u8 + Len(hi) + Len(sl) IN
           \E la \in Opt({Languages.CHINESE}, u10) :
           \E ex \in Opt({"myexpander"}, u10 + Len(la)) :
           LET u12 == u10 + Len(la) + Len(ex) IN
           \E sc \in Opt({"myscorer"}, u12) :
           \E pa \in Opt({"mypayload"}, u12 + Len(sc)) :
           LET u14 == u12 + Len(sc) + Len(pa) IN
           \E sb \in Opt({"speech"}, u14) :
               Do([op |-> "search", index_name |-> n, query |-> q,
                   flag_order |-> o, flags |-> FlagsOf(Members(F, o)),
                   numeric_filter |-> nf, geo_filter |-> gf, in_keys |-> ik, in_fields |-> inf,
                   return_fields |-> rf, summarize |-> su, highlight |-> hi, slop |-> sl,
                   language |-> la, expander |-> ex, scorer |-> sc, payload |-> pa, sort_by |-> sb],
                  u14 + Len(sb))

(***************************************************************************)
(* redicalsearch/mixin.py                                                  *)
(***************************************************************************)
MixinCreate == pc = "idle" /\ CreateCalls("mixin")

\* execute(..., error_func=_check_index_exists_error) resolves: with True when
\* the server answers OK, and create returns what execute resolves with
MixinCreateReply ==
    /\ Awaiting("mixin", "create")
    /\ \E r \in ErrorReplies \cup {ValueReply(TRUE)} :
        Finish(r, IF r.kind = "error"
                 THEN RaisedOutcome(_check_index_exists_error(ResponseError(r.text)))
                 ELSE ReturnedOutcome(Val(r.value)))

MixinInfo ==
    /\ pc = "idle"
    /\ \E n \in IndexNames : Start("mixin", [op |-> "info", index_name |-> n], "", info_command(n))

\* execute(..., conversion_func=_convert_index_info, error_func=_check_unknown_index_error) resolves
MixinInfoReply ==
    /\ Awaiting("mixin", "info")
    /\ \E r \in InfoReplies :
        Finish(r, IF r.kind = "error"
                 THEN RaisedOutcome(_check_unknown_index_error(ResponseError(r.text)))
                 ELSE DecodedOutcome(_convert_index_info(Val(r.value))))

MixinSearch == pc = "idle" /\ SearchCalls("mixin")

\* execute(..., conversion_func=_convert_search_result(offset, limit, document_cls)) resolves
MixinSearchReply ==
    /\ Awaiting("mixin", "search")
    /\ \E r \in SearchReplies \cup
                (IF "NO_CONTENT" \in Range(args.flag_order)
                 THEN {ValueReply(IdsOnlyReply(SubSeq(<<"doc1", "doc2", "doc3">>, 1, k))) : k \in 1..3}
                 ELSE {}) :
        Finish(r, IF r.kind = "error"
                 THEN RaisedOutcome(ResponseError(r.text))
                 ELSE DecodedOutcome(_convert_search_result(args.offset.n, args.limit.n, Val(r.value))))

(***************************************************************************)
(* redicalsearch/client.py                                                 *)
(***************************************************************************)
ClientCreate == pc = "idle" /\ CreateCalls("client")

\* execute resolves with True when the server answers OK
ClientCreateReply ==
    /\ Awaiting("client", "create")
    /\ \E r \in ErrorReplies \cup {ValueReply(TRUE)} :
        Finish(r, IF r.kind = "error"
                 THEN RaisedOutcome(client_check_index_exists_error(ResponseError(r.text)))
                 ELSE ReturnedOutcome(Val(r.value)))

ClientGetDocument ==
    /\ pc = "idle"
    /\ \E n \in IndexNames : \E d \in {"auser", "adocid"} :
        Start("client", [op |-> "get_document", index_name |-> n, document_id |-> d], d,
              get_document_command(n, d))

ClientGetDocumentReply ==
    /\ Awaiting("client", "get_document")
    /\ \E r \in {ErrorReply("Unknown Index name"), NilReply, ValueReply(<<>>),
                 ValueReply(<<"username", "auser", "real_name", "A User">>),
                 ValueReply(<<"username", "auser", "real_name">>)} :
        Finish(r, IF r.kind = "error"
                 THEN RaisedOutcome(ResponseError(r.text))
                 ELSE DecodedOutcome(get_document_result(r, args.document_id)))

ClientInfo ==
    /\ pc = "idle"
    /\ \E n \in IndexNames : Start("client", [op |-> "info", index_name |-> n], "", info_command(n))

ClientInfoReply ==
    /\ Awaiting("client", "info")
    /\ \E r \in InfoReplies :
        Finish(r, IF r.kind = "error"
                 THEN RaisedOutcome(client_info_error(ResponseError(r.text), args.index_name))
                 ELSE DecodedOutcome(client_info_result(Val(r.value))))

\* the offset and the limit the SearchResult is given
legacy_search_window(a) ==
    IF IsNone(a.limit) THEN <<0, 0>> ELSE <<py_int(Val(a.limit)[1]), py_int(Val(a.limit)[2])>>

ClientSearch == pc = "idle" /\ SearchCalls("client")

ClientSearchReply ==
    /\ Awaiting("client", "search")
    /\ \E r \in SearchReplies :
        Finish(r, IF r.kind = "error"
                 THEN RaisedOutcome(ResponseError(r.text))
                 ELSE DecodedOutcome(client_search_result(legacy_search_window(args)[1],
                                                          legacy_search_window(args)[2], Val(r.value))))

(***************************************************************************)
(* aioredisearch/client.py: the index name is the client's.                *)
(***************************************************************************)
AioAddDocument ==
    /\ pc = "idle"
    /\ \/ \E f \in {PlainPairs, <<>>,
                     <<<<"username", StrTok("arenthop")>>, <<"real_name", StrTok("Aang Renthop")>>,
                       <<"age", IntTok(30)>>>>} :
          LET a == [op |-> "add_document", index_name |-> "myindex", doc_id |-> "adocid",
                    fields |-> f, language |-> Some(Languages.CHINESE), no_save |-> TRUE,
                    payload |-> Some("mypayload"),
                    replace |-> Some(BitOr(ReplaceOptions.PARTIAL, ReplaceOptions.NO_CREATE)),
                    replace_condition |-> Some("@age > 20"), score |-> PyFloat(5)]
          IN  Start("aio", a, a.doc_id, add_document_command(a))
       \/ \E n \in Alt("myindex", IndexNames, 0) :
          \E f \in Alt(PlainPairs,
                       {<<>>,
                        <<<<"username", StrTok("arenthop")>>, <<"real_name", StrTok("Aang Renthop")>>,
                          <<"age", IntTok(30)>>>>,
                        <<<<"full name", StrTok("it's me")>>, <<"path", StrTok("a\\b c")>>,
                          <<"rank", FloatTok(15)>>, <<"tab", StrTok("a'b")>>>>},
                       Dev(n, "myindex")) :
          LET u2 == Dev(n, "myindex") + Dev(f, PlainPairs) IN
          \E la \in Opt({Languages.CHINESE}, u2) :
          \E ns \in Alt(FALSE, {TRUE}, u2 + Len(la)) :
          LET u4 == u2 + Len(la) + Dev(ns, FALSE) IN
          \E pa \in Opt({"mypayload"}, u4) :
          \E re \in Opt({ReplaceOptions.DEFAULT, ReplaceOptions.PARTIAL, ReplaceOptions.NO_CREATE,
                         BitOr(ReplaceOptions.PARTIAL, ReplaceOptions.NO_CREATE),
                         BitOr(ReplaceOptions.DEFAULT, ReplaceOptions.PARTIAL)}, u4 + Len(pa)) :
          LET u6 == u4 + Len(pa) + Len(re) IN
          \E rc \in Opt({"@age > 20"}, u6) :
          \E sc \in Alt(PyFloat(10), {PyInt(1), PyFloat(5)}, u6 + Len(rc)) :
          LET a == [op |-> "add_document", index_name |-> n, doc_id |-> "adocid", fields |-> f,
                    language |-> la, no_save |-> ns, payload |-> pa, replace |-> re,
                    replace_condition |-> rc, score |-> sc]
          IN  Start("aio", a, a.doc_id, add_document_command(a))

AioAddDocumentReply ==
    /\ Awaiting("aio", "add_document")
    /\ \E r \in ErrorReplies \cup {ValueReply("OK")} :
        Finish(r, IF r.kind = "error"
                 THEN RaisedOutcome(aio_add_document_error(ResponseError(r.text), args.doc_id))
                 ELSE ReturnedOutcome(None))

AioCreateIndex ==
    /\ pc = "idle"
    /\ \/ LET order == <<CreateFlags.NO_OFFSETS, CreateFlags.NO_HIGHLIGHTS, CreateFlags.NO_FREQUENCIES,
                        CreateFlags.NO_FIELDS, CreateFlags.MAX_TEXT_FIELDS>>
              a == [op |-> "create_index", index_name |-> "myindex", fields |-> AioPlainFields,
                    flag_order |-> order, flags |-> FlagsOf(order), stopwords |-> Some(<<"a", "b">>),
                    temporary |-> PyInt(3)]
          IN  Start("aio", a, "", create_index_command(a))
       \/ \E o \in FlagOrders({CreateFlags[m] : m \in DOMAIN CreateFlags \ {"SKIP_INITIAL_SCAN"}}, MaxSet) :
          \E n \in Alt("myindex", IndexNames, Len(o)) :
          \E f \in Alt(AioPlainFields,
                       {<<>>,
                        <<AioTextField("line", FALSE, FALSE, None, TRUE, None).value,
                          AioNumericField("speech", FALSE, TRUE).value>>},
                       Len(o) + Dev(n, "myindex")) :
          LET u2 == Len(o) + Dev(n, "myindex") + Dev(f, AioPlainFields) IN
          \E sw \in Opt({<<>>, <<"a", "b">>}, u2) :
          \E te \in Alt(PyInt(0), {PyInt(3), PyFloat(25), PyInt(-1)}, u2 + Len(sw)) :
          LET a == [op |-> "create_index", index_name |-> n, fields |-> f, flag_order |-> o,
                    flags |-> FlagsOf(o), stopwords |-> sw, temporary |-> te]
          IN  Start("aio", a, "", create_index_command(a))

AioCreateIndexReply ==
    /\ Awaiting("aio", "create_index")
    /\ \E r \in ErrorReplies \cup {ValueReply("OK")} :
        Finish(r, IF r.kind = "error"
                 THEN RaisedOutcome(aio_create_index_error(ResponseError(r.text), args.index_name))
                 ELSE ReturnedOutcome(None))

AioInfo ==
    /\ pc = "idle"
    /\ \E n \in IndexNames : Start("aio", [op |-> "info", index_name |-> n], "", info_command(n))

AioInfoReply ==
    /\ Awaiting("aio", "info")
    /\ \E r \in InfoReplies :
        Finish(r, IF r.kind = "error"
                 THEN RaisedOutcome(aio_info_error(ResponseError(r.text), args.index_name))
                 ELSE DecodedOutcome(aio_info_result(Val(r.value))))

AioSearch == pc = "idle" /\ SearchCalls("aio")

AioSearchReply ==
    /\ Awaiting("aio", "search")
    /\ \E r \in SearchReplies :
        Finish(r, IF r.kind = "error"
                 THEN RaisedOutcome(ResponseError(r.text))
                 ELSE DecodedOutcome(aio_search_result(legacy_search_window(args)[1],
                                                          legacy_search_window(args)[2], Val(r.value))))

\* the caller takes the outcome and is free to make the next call
Return ==
    /\ pc = "done"
    /\ pc' = "idle"
    /\ call' = NoCall
    /\ args' = NoArgs
    /\ command' = <<>>
    /\ nexec' = 0
    /\ reply' = NoReply
    /\ outcome' = NoOutcome

Next ==
    \/ MixinCreate
    \/ MixinCreateReply
    \/ MixinInfo
    \/ MixinInfoReply
    \/ MixinSearch
    \/ MixinSearchReply
    \/ ClientCreate
    \/ ClientCreateReply
    \/ ClientGetDocument
    \/ ClientGetDocumentReply
    \/ ClientInfo
    \/ ClientInfoReply
    \/ ClientSearch
    \/ ClientSearchReply
    \/ AioAddDocument
    \/ AioAddDocumentReply
    \/ AioCreateIndex
    \/ AioCreateIndexReply
    \/ AioInfo
    \/ AioInfoReply
    \/ AioSearch
    \/ AioSearchReply
    \/ Return

Spec == Init /\ [][Next]_vars


(***************************************************************************)
(* What the caller builds without the transport: the fields of a schema.   *)
(* A constructor returns the field or raises at once (pc = "done").        *)
(***************************************************************************)
Construct(client, a, r) ==
    /\ pc = "idle"
    /\ pc' = "done"
    /\ call' = [client |-> client, op |-> a.op, index_name |-> "", doc_id |-> ""]
    /\ args' = a
    /\ command' = <<>>
    /\ nexec' = 0
    /\ reply' = NoReply
    /\ outcome' = DecodedOutcome(r)

\* redicalsearch/field.py: flags is None or any union of FieldFlags members
ConstructField ==
    \E flags \in {None} \cup {Some(f) : f \in 1..7} :
        \/ Construct("redicalsearch", [op |-> "GeoField", name |-> "myfield", flags |-> flags],
                     GeoField("myfield", flags))
        \/ Construct("redicalsearch", [op |-> "NumericField", name |-> "myfield", flags |-> flags],
                     NumericField("myfield", flags))
        \/ \E separator \in {None, Some("|"), Some(""), Some("not valid")} :
            Construct("redicalsearch",
                      [op |-> "TagField", name |-> "myfield", flags |-> flags, separator |-> separator],
                      TagField("myfield", flags, separator))
        \/ \E phonetic_matcher \in {None, Some(PhoneticMatchers.ENGLISH)} :
           \E weight \in {None, Some(PyInt(4)), Some(PyFloat(30))} :
            Construct("redicalsearch",
                      [op |-> "TextField", name |-> "myfield", flags |-> flags,
                       phonetic_matcher |-> phonetic_matcher, weight |-> weight],
                      TextField("myfield", flags, phonetic_matcher, weight))

\* aioredisearch/field.py: the options are keyword arguments
ConstructAioField ==
    \E no_index \in BOOLEAN : \E sortable \in BOOLEAN :
        \/ Construct("aioredisearch",
                     [op |-> "GeoField", name |-> "myfield", no_index |-> no_index, sortable |-> sortable],
                     AioGeoField("myfield", no_index, sortable))
        \/ Construct("aioredisearch",
                     [op |-> "NumericField", name |-> "myfield", no_index |-> no_index, sortable |-> sortable],
                     AioNumericField("myfield", no_index, sortable))
        \/ \E separator \in {None, Some("|"), Some(""), Some("not valid")} :
            Construct("aioredisearch",
                      [op |-> "TagField", name |-> "myfield", no_index |-> no_index, sortable |-> sortable,
                       separator |-> separator],
                      AioTagField("myfield", no_index, separator, sortable))
        \/ \E no_stem \in BOOLEAN :
           \E phonetic_matcher \in {None, Some("dm:en"), Some("not valid")} :
           \E weight \in {None, Some(PyInt(4)), Some(PyFloat(30))} :
            Construct("aioredisearch",
                      [op |-> "TextField", name |-> "myfield", no_index |-> no_index, sortable |-> sortable,
                       no_stem |-> no_stem, phonetic_matcher |-> phonetic_matcher, weight |-> weight],
                      AioTextField("myfield", no_index, no_stem, phonetic_matcher, sortable, weight))

(***************************************************************************)
(* redicalsearch/schema.py: a Schema class is its declared schema fields   *)
(* (__fields__, as SchemaMeta collected them) and its Options class.       *)
(***************************************************************************)
\* class IndexOptions: the class variables and their defaults
IndexOptions ==
    [on |-> Structures.HASH, prefixes |-> None, filter |-> None, flags |-> None, language |-> None,
     language_field |-> None, payload_field |-> None, score |-> None, score_field |-> None,
     stopwords |-> None, temporary |-> None]

\* Schema._get_fields: schema_field.field() of every name of __fields__
Schema_get_fields(cls) ==
    [i \in 1..Len(cls.fields) |->
        LET f == cls.fields[i]
        IN  IF f.kind = "SchemaTextField"
            THEN TextField(f.name, f.flags, None, None).value
            ELSE NumericField(f.name, f.flags).value]

\* Schema._get_options: getattr(cls, 'Options', IndexOptions) as keyword arguments
Schema_get_options(cls) == IF IsNone(cls.Options) THEN IndexOptions ELSE Val(cls.Options)

\* Commands.create(index_name, cls): the class is the one member of *fields,
\* the keyword arguments keep their defaults, and the comprehension that
\* flattens the fields iterates the class
create_schema_class(a) ==
    LET r == create_command([a EXCEPT !.fields = <<>>])
    IN  IF r.raised THEN r ELSE Raises("TypeError", "'SchemaMeta' object is not iterable")

\* redicalsearch/mixin.py: ft.create(index_name, SchemaClass) with the Schema
\* classes of tests/create-tests.py and one with two fields
CreateFromSchema ==
    LET myfield == <<[kind |-> "SchemaTextField", name |-> "myfield", flags |-> None]>>
        two == <<[kind |-> "SchemaTextField", name |-> "line", flags |-> Some(FieldFlags.SORTABLE)],
                 [kind |-> "SchemaNumericField", name |-> "speech", flags |-> Some(FieldFlags.SORTABLE)]>>
        options == {None,
                    Some([IndexOptions EXCEPT !.prefixes = Some(<<"doc:", "aprefix:">>)]),
                    Some([IndexOptions EXCEPT !.filter = Some("@indexName==\"myindex\"")]),
                    Some([IndexOptions EXCEPT !.language = Some(Languages.CHINESE)]),
                    Some([IndexOptions EXCEPT !.score = Some(PyFloat(5))]),
                    Some([IndexOptions EXCEPT !.stopwords = Some(<<"one", "two", "three">>)]),
                    Some([IndexOptions EXCEPT !.temporary = Some(PyInt(600))]),
                    Some([IndexOptions EXCEPT !.flags = Some(CreateFlags.NO_OFFSETS)])}
    IN  /\ pc = "idle"
        /\ \E n \in IndexNames : \E f \in {myfield, two} : \E o \in options :
            LET a == [op |-> "create", index_name |-> n, fields |-> <<[fields |-> f, Options |-> o]>>,
                      on |-> Structures.HASH, flag_order |-> <<>>, flags |-> None, prefixes |-> None,
                      filter |-> None, language |-> None, language_field |-> None, payload_field |-> None,
                      score |-> None, score_field |-> None, stopwords |-> None, temporary |-> None]
            IN  Start("mixin", a, "", create_schema_class(a))

(***************************************************************************)
(* redicalsearch/model.py: a Document is its id and its declared           *)
(* attributes, each with the type of its field and its value (or None).    *)
(* A mapping is the sequence of its <<key, value>> items.                  *)
(***************************************************************************)
\* int(value.timestamp() * 1000) for a datetime given as the decimal text of its
\* whole epoch seconds
timestamp_ms(seconds) == IF seconds = "0" THEN "0" ELSE seconds \o "000"

\* Document.hset with the bool values left as they are
hset_bool_kept(doc, exclude) ==
    LET fields == <<[name |-> "id", type |-> "str", value |-> Some(StrTok(doc.id))]>> \o doc.attrs
        kept(f) == ~IsNone(f.value) /\ (IsNone(exclude) \/ f.name \notin Val(exclude))
        d == SelectSeq(fields, kept)
        converted(f) ==
            IF f.type = "datetime" THEN [t |-> "int", v |-> timestamp_ms(Val(f.value).v)]
            ELSE Val(f.value)
        no_id(item) == item[1] # "id"
    IN  IF \A i \in 1..Len(d) : d[i].name # "id"
        THEN Raises("KeyError", "'id'")
        ELSE Returns(SelectSeq([i \in 1..Len(d) |-> <<d[i].name, converted(d[i])>>], no_id))

\* Document.hset(exclude=...): dict(exclude_none=True), bool to int, datetime
\* to the timestamp in milliseconds, del d['id']
hset(doc, exclude) ==
    LET fields == <<[name |-> "id", type |-> "str", value |-> Some(StrTok(doc.id))]>> \o doc.attrs
        kept(f) == ~IsNone(f.value) /\ (IsNone(exclude) \/ f.name \notin Val(exclude))
        d == SelectSeq(fields, kept)
        converted(f) ==
            IF f.type = "bool" THEN IntTok(IF Val(f.value).v = "True" THEN 1 ELSE 0)
            ELSE IF f.type = "datetime" THEN [t |-> "int", v |-> timestamp_ms(Val(f.value).v)]
            ELSE Val(f.value)
        no_id(item) == item[1] # "id"
    IN  IF \A i \in 1..Len(d) : d[i].name # "id"
        THEN Raises("KeyError", "'id'")
        ELSE Returns(SelectSeq([i \in 1..Len(d) |-> <<d[i].name, converted(d[i])>>], no_id))

\* doc.hset() and doc.hset(exclude=...) of a document with two attributes
DocumentHset ==
    LET values(type) ==
            {None} \cup {Some(v) : v \in
                CASE type = "str" -> {StrTok("a")}
                  [] type = "int" -> {IntTok(0), IntTok(7)}
                  [] type = "bool" -> {[t |-> "bool", v |-> "True"], [t |-> "bool", v |-> "False"]}
                  [] OTHER -> {[t |-> "datetime", v |-> "1600000000"], [t |-> "datetime", v |-> "0"]}}
        types == {"str", "int", "bool", "datetime"}
    IN  \E t1 \in types : \E t2 \in types : \E v1 \in values(t1) : \E v2 \in values(t2) :
        \E exclude \in {None, Some({"attr2"}), Some({"id"})} :
            LET doc == [id |-> "an-id",
                        attrs |-> <<[name |-> "attr1", type |-> t1, value |-> v1],
                                    [name |-> "attr2", type |-> t2, value |-> v2]>>]
            IN  Construct("redicalsearch", [op |-> "hset", doc |-> doc, exclude |-> exclude],
                          hset(doc, exclude))

BuildNext ==
    \/ ConstructField
    \/ ConstructAioField
    \/ CreateFromSchema
    \/ DocumentHset
    \/ Return

BuildSpec == Init /\ [][BuildNext]_vars
(***************************************************************************)
(* The properties.                                                         *)
(***************************************************************************)

\* C1: in every variant, the command search() hands to execute lists its option
\* blocks in the fixed order NOCONTENT, VERBATIM, NOSTOPWORDS, WITHSCORES,
\* WITHPAYLOADS, WITHSORTKEYS, FILTER..., GEOFILTER, INKEYS, INFIELDS, RETURN,
\* SUMMARIZE, HIGHLIGHT, SLOP, INORDER, LANGUAGE, EXPANDER, SCORER, PAYLOAD,
\* SORTBY, LIMIT; a block is there only if its option is set, and the FILTER
\* blocks follow the order of the caller's filters.
C1_SearchBlocksInFixedOrder ==
    (pc = "awaiting" /\ call.op = "search") =>
        LET P == CommandSearchParameters
            order == <<P.NOCONTENT, P.VERBATIM, P.NOSTOPWORDS, P.WITHSCORES, P.WITHPAYLOADS, P.WITHSORTKEYS,
                       P.FILTER, P.GEOFILTER, P.INKEYS, P.INFIELDS, P.RETURN, P.SUMMARIZE, P.HIGHLIGHT,
                       P.SLOP, P.INORDER, P.LANGUAGE, P.EXPANDER, P.SCORER, P.PAYLOAD, P.SORTBY, P.LIMIT>>
            blocks == {i \in 4..Len(command) : command[i].t = "str" /\ command[i].v \in Range(order)}
            rank(i) == CHOOSE k \in 1..Len(order) : order[k] = command[i].v
            has(k) == \E i \in blocks : command[i].v = k
            flag(name) == name \in Range(args.flag_order)
            filters == IF IsNone(args.numeric_filter) THEN <<>> ELSE Val(args.numeric_filter)
            filter_at == {i \in blocks : command[i].v = P.FILTER}
        IN  /\ \A i, j \in blocks :
                i < j => \/ rank(i) < rank(j)
                         \/ rank(i) = rank(j) /\ command[i].v = P.FILTER
            /\ has(P.NOCONTENT) <=> flag("NO_CONTENT")
            /\ has(P.VERBATIM) <=> flag("VERBATIM")
            /\ has(P.NOSTOPWORDS) <=> flag("NO_STOPWORDS")
            /\ has(P.WITHSCORES) <=> flag("WITH_SCORES")
            /\ has(P.WITHPAYLOADS) <=> flag("WITH_PAYLOADS")
            /\ has(P.WITHSORTKEYS) <=> flag("WITH_SORT_KEYS")
            /\ has(P.FILTER) <=> filters # <<>>
            /\ has(P.GEOFILTER) <=> ~IsNone(args.geo_filter)
            /\ has(P.INKEYS) <=> ~IsNone(args.in_keys)
            /\ has(P.INFIELDS) <=> ~IsNone(args.in_fields)
            /\ has(P.RETURN) <=> ~IsNone(args.return_fields)
            /\ has(P.SUMMARIZE) <=> ~IsNone(args.summarize)
            /\ has(P.HIGHLIGHT) <=> ~IsNone(args.highlight)
            /\ has(P.SLOP) <=> ~IsNone(args.slop)
            /\ has(P.INORDER) <=> flag("IN_ORDER")
            /\ has(P.LANGUAGE) <=> ~IsNone(args.language)
            /\ has(P.EXPANDER) <=> ~IsNone(args.expander)
            /\ has(P.SCORER) <=> ~IsNone(args.scorer)
            /\ has(P.PAYLOAD) <=> ~IsNone(args.payload)
            /\ has(P.SORTBY) <=> ~IsNone(args.sort_by)
            /\ has(P.LIMIT) => (call.client = "mixin" \/ ~IsNone(args.limit))
            /\ Cardinality(filter_at) = Len(filters)
            /\ \A n \in 1..Len(filters) :
                \E i \in filter_at :
                    /\ Cardinality({j \in filter_at : j <= i}) = n
                    /\ command[i + 1] = StrTok(filters[n].field)

\* C1: a search of the legacy client with every option set is awaiting its reply
C1_Witness ==
    /\ pc = "awaiting"
    /\ call.op = "search"
    /\ call.client = "aio"
    /\ Len(args.flag_order) = 10
    /\ ~IsNone(args.numeric_filter)
    /\ ~IsNone(args.sort_by)
    /\ \E i \in 1..Len(command) : command[i] = StrTok(CommandSearchParameters.SLOP)

\* C2: the redicalsearch mixin's search emits the query right after the index
\* name exactly as the caller supplied it, with no quote characters added.
C2_QueryEmittedBare ==
    (pc = "awaiting" /\ call.client = "mixin" /\ call.op = "search") =>
        /\ command[2] = StrTok(args.index_name)
        /\ command[3] = StrTok(args.query)

\* C3: the redicalsearch create command is FT.CREATE <name> ON <structure>, the
\* supplied options in the order PREFIX, FILTER, LANGUAGE, LANGUAGE_FIELD,
\* PAYLOAD_FIELD, SCORE, SCORE_FIELD, STOPWORDS, TEMPORARY, the set flags in the
\* order MAXTEXTFIELDS, NOFIELDS, NOFREQS, NOHL, NOOFFSETS, SKIPINITIALSCAN, then
\* SCHEMA and the tokens of the fields in the caller's order; an option that is
\* not supplied contributes no token.
C3_CreateOptionsInFixedOrder ==
    (pc = "awaiting" /\ call.op = "create") =>
        LET P == CommandCreateParameters
            order == <<P.PREFIX, P.FILTER, P.LANGUAGE, P.LANGUAGE_FIELD, P.PAYLOAD_FIELD, P.SCORE,
                       P.SCORE_FIELD, P.STOPWORDS, P.TEMPORARY, P.MAXTEXTFIELDS, P.NOFIELDS, P.NOFREQS,
                       P.NOHL, P.NOOFFSETS, P.SKIPINITIALSCAN>>
            schema == CHOOSE i \in 1..Len(command) :
                        /\ command[i] = StrTok(P.SCHEMA)
                        /\ \A j \in 1..(i - 1) : command[j] # StrTok(P.SCHEMA)
            options == {i \in 5..(schema - 1) : command[i].t = "str" /\ command[i].v \in Range(order)}
            rank(i) == CHOOSE k \in 1..Len(order) : order[k] = command[i].v
            has(k) == \E i \in options : command[i].v = k
            after(k) == command[(CHOOSE i \in options : command[i].v = k) + 1]
            flag(member) == member \in Range(args.flag_order)
            size(o, n) == IF IsNone(o) THEN 0 ELSE n
        IN  /\ \E i \in 1..Len(command) : command[i] = StrTok(P.SCHEMA)
            /\ SubSeq(command, 1, 4) = <<StrTok(FullTextCommands.CREATE), StrTok(args.index_name),
                                         StrTok(P.ON), StrTok(args.on)>>
            /\ \A i, j \in options : i < j => rank(i) < rank(j)
            /\ has(P.PREFIX) <=> ~IsNone(args.prefixes)
            /\ has(P.FILTER) <=> ~IsNone(args.filter)
            /\ has(P.LANGUAGE) <=> ~IsNone(args.language)
            /\ has(P.LANGUAGE_FIELD) <=> ~IsNone(args.language_field)
            /\ has(P.PAYLOAD_FIELD) <=> ~IsNone(args.payload_field)
            /\ has(P.SCORE) <=> ~IsNone(args.score)
            /\ has(P.SCORE_FIELD) <=> ~IsNone(args.score_field)
            /\ has(P.STOPWORDS) <=> ~IsNone(args.stopwords)
            /\ has(P.TEMPORARY) <=> ~IsNone(args.temporary)
            /\ has(P.MAXTEXTFIELDS) <=> flag(CreateFlags.MAX_TEXT_FIELDS)
            /\ has(P.NOFIELDS) <=> flag(CreateFlags.NO_FIELDS)
            /\ has(P.NOFREQS) <=> flag(CreateFlags.NO_FREQUENCIES)
            /\ has(P.NOHL) <=> flag(CreateFlags.NO_HIGHLIGHTS)
            /\ has(P.NOOFFSETS) <=> flag(CreateFlags.NO_OFFSETS)
            /\ has(P.SKIPINITIALSCAN) <=> flag(CreateFlags.SKIP_INITIAL_SCAN)
            /\ ~IsNone(args.filter) => after(P.FILTER) = StrTok(Val(args.filter))
            /\ ~IsNone(args.language_field) => after(P.LANGUAGE_FIELD) = StrTok(Val(args.language_field))
            /\ ~IsNone(args.score_field) => after(P.SCORE_FIELD) = StrTok(Val(args.score_field))
            /\ schema - 5 = size(args.prefixes, 2) + (IF IsNone(args.prefixes) THEN 0 ELSE Len(Val(args.prefixes)))
                            + size(args.filter, 2) + size(args.language, 2) + size(args.language_field, 2)
                            + size(args.payload_field, 2) + size(args.score, 2) + size(args.score_field, 2)
                            + size(args.stopwords, 2)
                            + (IF IsNone(args.stopwords) THEN 0 ELSE Len(Val(args.stopwords)))
                            + size(args.temporary, 2) + Len(args.flag_order)
            /\ SubSeq(command, schema + 1, Len(command)) = Flatten(args.fields)

\* C3: a create with every option and every flag set is awaiting its reply
C3_Witness ==
    /\ pc = "awaiting"
    /\ call.client = "mixin"
    /\ call.op = "create"
    /\ Len(args.flag_order) = 6
    /\ ~IsNone(args.prefixes)
    /\ ~IsNone(args.temporary)
    /\ Len(command) > 30

\* C4: the legacy create_index command has, between the index name and SCHEMA,
\* MAXTEXTFIELDS, TEMPORARY <seconds>, NOOFFSETS, NOHL, NOFIELDS, NOFREQS,
\* STOPWORDS <count> <word>..., in that order and each only if set, then SCHEMA
\* and the fields in the caller's order.
C4_CreateIndexOptionsInFixedOrder ==
    (pc = "awaiting" /\ call.op = "create_index") =>
        LET P == CommandCreateParameters
            order == <<P.MAXTEXTFIELDS, P.TEMPORARY, P.NOOFFSETS, P.NOHL, P.NOFIELDS, P.NOFREQS, P.STOPWORDS>>
            schema == CHOOSE i \in 1..Len(command) :
                        /\ command[i] = StrTok(P.SCHEMA)
                        /\ \A j \in 1..(i - 1) : command[j] # StrTok(P.SCHEMA)
            options == {i \in 3..(schema - 1) : command[i].t = "str" /\ command[i].v \in Range(order)}
            rank(i) == CHOOSE k \in 1..Len(order) : order[k] = command[i].v
            has(k) == \E i \in options : command[i].v = k
            flag(member) == member \in Range(args.flag_order)
        IN  /\ \E i \in 1..Len(command) : command[i] = StrTok(P.SCHEMA)
            /\ SubSeq(command, 1, 2) = <<StrTok(FullTextCommands.CREATE), StrTok(args.index_name)>>
            /\ \A i, j \in options : i < j => rank(i) < rank(j)
            /\ has(P.MAXTEXTFIELDS) <=> flag(CreateFlags.MAX_TEXT_FIELDS)
            /\ has(P.TEMPORARY) <=> args.temporary.n > 0
            /\ has(P.NOOFFSETS) <=> flag(CreateFlags.NO_OFFSETS)
            /\ has(P.NOHL) <=> flag(CreateFlags.NO_HIGHLIGHTS)
            /\ has(P.NOFIELDS) <=> flag(CreateFlags.NO_FIELDS)
            /\ has(P.NOFREQS) <=> flag(CreateFlags.NO_FREQUENCIES)
            /\ has(P.STOPWORDS) <=> ~IsNone(args.stopwords)
            /\ schema - 3 = (IF args.temporary.n > 0 THEN 2 ELSE 0) + Len(args.flag_order)
                            + (IF IsNone(args.stopwords) THEN 0 ELSE 2 + Len(Val(args.stopwords)))
            /\ SubSeq(command, schema + 1, Len(command)) = Flatten(args.fields)

\* C4: a create_index with NOOFFSETS and stopwords is awaiting its reply
C4_Witness ==
    /\ pc = "awaiting"
    /\ call.op = "create_index"
    /\ CreateFlags.NO_OFFSETS \in Range(args.flag_order)
    /\ args.stopwords = Some(<<"a", "b">>)
    /\ \E i \in 1..Len(command) : command[i] = StrTok(CommandCreateParameters.NOOFFSETS)

\* C5: whatever order the caller OR-ed the flags in, the flag tokens of the
\* command of create() and of search() are the tokens of the members the
\* caller combined, each once, in the fixed protocol order: MAXTEXTFIELDS,
\* NOFIELDS, NOFREQS, NOHL, NOOFFSETS, SKIPINITIALSCAN directly before SCHEMA
\* for create, and NOCONTENT, VERBATIM, NOSTOPWORDS, WITHSCORES, WITHPAYLOADS,
\* WITHSORTKEYS directly after the query for search.  The tokens depend on
\* the set of members only, so two orders of the same members give the same
\* tokens.
C5_FlagOrderIrrelevant ==
    (pc = "awaiting" /\ call.client = "mixin" /\ call.op \in {"create", "search"}) =>
        LET combined == Range(args.flag_order)
            protocol ==
                IF call.op = "create"
                THEN <<<<CreateFlags.MAX_TEXT_FIELDS, "MAXTEXTFIELDS">>, <<CreateFlags.NO_FIELDS, "NOFIELDS">>,
                       <<CreateFlags.NO_FREQUENCIES, "NOFREQS">>, <<CreateFlags.NO_HIGHLIGHTS, "NOHL">>,
                       <<CreateFlags.NO_OFFSETS, "NOOFFSETS">>, <<CreateFlags.SKIP_INITIAL_SCAN, "SKIPINITIALSCAN">>>>
                ELSE <<<<"NO_CONTENT", "NOCONTENT">>, <<"VERBATIM", "VERBATIM">>,
                       <<"NO_STOPWORDS", "NOSTOPWORDS">>, <<"WITH_SCORES", "WITHSCORES">>,
                       <<"WITH_PAYLOADS", "WITHPAYLOADS">>, <<"WITH_SORT_KEYS", "WITHSORTKEYS">>>>
            is_combined(entry) == entry[1] \in combined
            chosen == SelectSeq(protocol, is_combined)
            expected == [i \in 1..Len(chosen) |-> StrTok(chosen[i][2])]
            flag_tokens == {StrTok(protocol[i][2]) : i \in 1..Len(protocol)}
            is_flag_token(t) == t \in flag_tokens
            \* the position of the first flag token
            first == IF call.op = "search" THEN 4
                     ELSE (CHOOSE i \in 1..Len(command) : command[i] = StrTok("SCHEMA")) - Len(expected)
        IN  /\ SelectSeq(command, is_flag_token) = expected
            /\ first >= 1
            /\ SubSeq(command, first, first + Len(expected) - 1) = expected

\* C5: a create whose flags were OR-ed against the protocol order is awaiting
C5_Witness ==
    /\ pc = "awaiting"
    /\ call.client = "mixin"
    /\ call.op = "create"
    /\ args.flag_order = <<CreateFlags.SKIP_INITIAL_SCAN, CreateFlags.MAX_TEXT_FIELDS>>
    /\ \E i \in 1..Len(command) :
        /\ command[i] = StrTok(CommandCreateParameters.MAXTEXTFIELDS)
        /\ command[i + 1] = StrTok(CommandCreateParameters.SKIPINITIALSCAN)

\* C6: create accepts a score s exactly when 0.0 <= s <= 1.0; outside that
\* range it raises a ValueError whose message names float(s), and hands no
\* command to the transport.
C6_ScoreBounds ==
    (call.op = "create" /\ args # NoArgs /\ ~IsNone(args.score)) =>
        LET s == Val(args.score)
            tenths == IF s.type = "int" THEN 10 * s.n ELSE s.n
        IN  IF 0 <= tenths /\ tenths <= 10
            THEN /\ pc = "awaiting"
                 /\ nexec = 1
                 /\ outcome = NoOutcome
            ELSE /\ pc = "done"
                 /\ outcome.kind = "raised"
                 /\ outcome.exc = "ValueError"
                 /\ str_contains(str_float(tenths), outcome.text)
                 /\ nexec = 0
                 /\ command = <<>>
                 /\ reply = NoReply

\* C6: create(score=2) has raised its ValueError
C6_Witness ==
    /\ pc = "done"
    /\ call.op = "create"
    /\ args # NoArgs
    /\ args.score = Some(PyInt(2))
    /\ outcome.exc = "ValueError"
    /\ outcome.text = "score must be between 0.0 and 1.0, got 2.0"
    /\ nexec = 0

\* C7 as stated: on the create path a server error whose text is "Index already
\* exists" in any letter case becomes the index-exists condition, and a server
\* error with any other text is passed through unchanged.
C7_OnlyExactTextIsIndexExists ==
    (pc = "done" /\ call.op \in {"create", "create_index"} /\ reply.kind = "error") =>
        IF str_lower(reply.text) = "index already exists"
        THEN outcome.kind = "raised" /\ outcome.exc \in {"IndexExistsError", "IndexExists"}
        ELSE outcome = RaisedOutcome(ResponseError(reply.text))

\* C7 amended: on the create path a server error whose text is "Index already
\* exists" in any letter case becomes the index-exists condition, and a server
\* error whose text does not contain that phrase in any letter case is passed
\* through unchanged.
C7_IndexExistsOrPassThrough ==
    (pc = "done" /\ call.op \in {"create", "create_index"} /\ reply.kind = "error") =>
        /\ str_lower(reply.text) = "index already exists" =>
            outcome.kind = "raised" /\ outcome.exc \in {"IndexExistsError", "IndexExists"}
        /\ ~str_contains("index already exists", str_lower(reply.text)) =>
            outcome = RaisedOutcome(ResponseError(reply.text))

\* C7: the mixin's create got "INDEX ALREADY EXISTS" and raised IndexExistsError
C7_Witness ==
    /\ pc = "done"
    /\ call.client = "mixin"
    /\ call.op = "create"
    /\ reply = ErrorReply("INDEX ALREADY EXISTS")
    /\ outcome.exc = "IndexExistsError"

\* C8: on every path that maps a conflict (create, add_document, info, in every
\* variant) a server error whose text contains the phrase in any letter case,
\* also with text before or after it, becomes the typed condition.
C8_SubstringMatchOnEveryPath ==
    (pc = "done" /\ reply.kind = "error") =>
        /\ (call.op \in {"create", "create_index"}
            /\ str_contains("index already exists", str_lower(reply.text)))
           => outcome.exc \in {"IndexExistsError", "IndexExists"}
        /\ (call.op = "add_document" /\ str_contains("document already exists", str_lower(reply.text)))
           => outcome.exc = "DocumentExists"
        /\ (call.op = "info" /\ str_contains("unknown index name", str_lower(reply.text)))
           => outcome.exc \in {"UnknownIndexError", "UnknownIndex"}

\* C9: every typed conflict condition carries the offending name: index-exists
\* and unknown-index the index name of the call, document-exists and
\* document-not-found the document id of the call.
C9_TypedConditionCarriesName ==
    (pc = "done" /\ outcome.kind = "raised") =>
        /\ outcome.exc \in {"IndexExistsError", "IndexExists", "UnknownIndexError", "UnknownIndex"}
           => str_contains(call.index_name, outcome.text)
        /\ outcome.exc \in {"DocumentExists", "DocumentNotFoundError"}
           => str_contains(call.doc_id, outcome.text)

\* C10: a call invokes execute exactly once when its arguments pass validation
\* and never when validation raises (score out of range, no field/value pair,
\* limit or offset not an int); nothing invokes execute again afterwards.
C10_OneExecutePerCall ==
    [][/\ (pc = "idle" /\ pc' # "idle") =>
            LET a == args'
                tenths(s) == IF s.type = "int" THEN 10 * s.n ELSE s.n
                valid == CASE a.op = "create" ->
                                IsNone(a.score) \/ (0 <= tenths(Val(a.score)) /\ tenths(Val(a.score)) <= 10)
                           [] a.op = "add_document" -> Len(a.fields) > 0
                           [] a.op = "search" /\ call'.client = "mixin" ->
                                a.limit.type = "int" /\ a.offset.type = "int"
                           [] OTHER -> TRUE
            IN  IF valid
                THEN pc' = "awaiting" /\ nexec' = 1 /\ Len(command') > 0
                ELSE pc' = "done" /\ nexec' = 0 /\ command' = <<>> /\ outcome'.kind = "raised"
       /\ pc = "awaiting" => (nexec = 1 /\ nexec' = 1 /\ pc' = "done")
       /\ pc = "done" => (nexec <= 1 /\ pc' = "idle")]_vars

\* C10: a search with a limit that is no int has raised without an execute
C10_Witness ==
    /\ pc = "done"
    /\ call.op = "search"
    /\ outcome.exc = "TypeError"
    /\ nexec = 0
    /\ command = <<>>


\* C11: for every numeric filter, in the caller's order, search emits FILTER
\* <field> <min> <max>: a missing minimum is the literal -inf, a missing maximum
\* the literal +inf, a present bound its float value, and a present bound that
\* is flagged exclusive the float literal prefixed with "(".
C11_NumericFilterBounds ==
    (pc = "awaiting" /\ call.op = "search") =>
        LET filters == IF IsNone(args.numeric_filter) THEN <<>> ELSE Val(args.numeric_filter)
            at == {i \in 4..Len(command) : command[i] = StrTok("FILTER")}
            exclusive(f, member) == ~IsNone(f.flags) /\ BitAnd(Val(f.flags), member) = member
            bound(b, excl, missing) ==
                IF IsNone(b) THEN [t |-> "str", v |-> missing]
                ELSE IF excl THEN [t |-> "str", v |-> "(" \o str_float(Val(b))]
                ELSE [t |-> "float", v |-> str_float(Val(b))]
        IN  /\ Cardinality(at) = Len(filters)
            /\ \A n \in 1..Len(filters) :
                \E i \in at :
                    /\ Cardinality({j \in at : j <= i}) = n
                    /\ i + 3 <= Len(command)
                    /\ command[i + 1] = [t |-> "str", v |-> filters[n].field]
                    /\ command[i + 2] = bound(filters[n].minimum,
                                              exclusive(filters[n], NumericFilterFlags.EXCLUSIVE_MIN), "-inf")
                    /\ command[i + 3] = bound(filters[n].maximum,
                                              exclusive(filters[n], NumericFilterFlags.EXCLUSIVE_MAX), "+inf")

\* C11: a search whose filter has no minimum and the exclusive maximum 10 is
\* awaiting with FILTER field -inf (10.0
C11_Witness ==
    /\ pc = "awaiting"
    /\ call.op = "search"
    /\ \E i \in 1..Len(command) :
        /\ i + 3 <= Len(command)
        /\ SubSeq(command, i, i + 3) = <<StrTok("FILTER"), StrTok("field"), StrTok("-inf"), StrTok("(10.0")>>

\* C12: every command the paginated search (redicalsearch/mixin.py) sends ends
\* with LIMIT <offset> <limit>, which is LIMIT 0 10 for the default arguments;
\* the older searches send LIMIT <offset> <limit> last only when the caller
\* gives a limit, send no LIMIT otherwise, and the result then decoded has the
\* offset 0 and the limit 0.
C12_Limit ==
    [][/\ (pc' = "awaiting" /\ call'.op = "search") =>
            LET n == Len(command')
                last3 == SubSeq(command', n - 2, n)
            IN  IF call'.client = "mixin"
                THEN /\ last3 = <<StrTok("LIMIT"), IntTok(args'.offset.n), IntTok(args'.limit.n)>>
                     /\ (args'.offset = PyInt(0) /\ args'.limit = PyInt(10)) =>
                            last3 = <<StrTok("LIMIT"), IntTok(0), IntTok(10)>>
                ELSE IF IsNone(args'.limit)
                THEN \A i \in 1..n : command'[i] # StrTok("LIMIT")
                ELSE last3 = <<StrTok("LIMIT"), IntTok(py_int(Val(args'.limit)[1])),
                               IntTok(py_int(Val(args'.limit)[2]))>>
       /\ (pc = "awaiting" /\ call.op = "search" /\ call.client # "mixin"
           /\ IsNone(args.limit) /\ outcome'.kind = "returned") =>
            (Val(outcome'.value).offset = 0 /\ Val(outcome'.value).limit = 0)]_vars

\* C12: the paginated search called with a sort field and no limit or offset is
\* awaiting with a command that ends with LIMIT 0 10
C12_Witness ==
    /\ pc = "awaiting"
    /\ call.client = "mixin"
    /\ call.op = "search"
    /\ ~IsNone(args.sort_by)
    /\ args.offset = PyInt(0)
    /\ args.limit = PyInt(10)
    /\ SubSeq(command, Len(command) - 2, Len(command)) = <<StrTok("LIMIT"), IntTok(0), IntTok(10)>>

\* C13: a search with a sort field sends SORTBY <field> once, followed by ASC
\* when the ASC flag is set (with or without DESC), by DESC when DESC is set
\* and ASC is not, and by no direction when neither is set; the command never
\* holds more than one direction token.
C13_SortDirection ==
    (pc = "awaiting" /\ call.op = "search" /\ ~IsNone(args.sort_by)) =>
        LET n == Len(command)
            at == {i \in 4..n : command[i] = StrTok("SORTBY")}
            asc == "ASC" \in Range(args.flag_order)
            desc == "DESC" \in Range(args.flag_order)
            directions == {StrTok("ASC"), StrTok("DESC")}
        IN  /\ Cardinality(at) = 1
            /\ \A i \in at :
                /\ i + 1 <= n
                /\ command[i + 1] = StrTok(Val(args.sort_by))
                /\ asc => (i + 2 <= n /\ command[i + 2] = StrTok("ASC"))
                /\ (desc /\ ~asc) => (i + 2 <= n /\ command[i + 2] = StrTok("DESC"))
                /\ (~asc /\ ~desc) => (i + 2 <= n => command[i + 2] \notin directions)
            /\ Cardinality({j \in 4..n : command[j] \in directions}) <= 1

\* C13: a search sorted by myfield with the flags DESC | ASC is awaiting with
\* SORTBY myfield ASC and no DESC
C13_Witness ==
    /\ pc = "awaiting"
    /\ call.op = "search"
    /\ args.flag_order = <<"DESC", "ASC">>
    /\ \E i \in 1..Len(command) :
        /\ i + 2 <= Len(command)
        /\ SubSeq(command, i, i + 2) = <<StrTok("SORTBY"), StrTok("myfield"), StrTok("ASC")>>
    /\ \A j \in 1..Len(command) : command[j] # StrTok("DESC")

\* C14: a search with a highlight sends HIGHLIGHT once, followed by FIELDS
\* <count> <field>... when the highlight names fields, then by TAGS <open>
\* <close> exactly when both tags are set; with one tag only the command holds
\* neither TAGS nor the tag, and the highlight makes no search raise.
C14_Highlight ==
    (call.op = "search" /\ args.op = "search" /\ ~IsNone(args.highlight)) =>
        LET h == Val(args.highlight)
            n == Len(command)
            at == {i \in 4..n : command[i] = StrTok("HIGHLIGHT")}
            both == ~IsNone(h.open_tag) /\ ~IsNone(h.close_tag)
            names == IF IsNone(h.field_names) THEN <<>>
                     ELSE <<StrTok("FIELDS"), IntTok(Len(Val(h.field_names)))>>
                          \o [k \in 1..Len(Val(h.field_names)) |-> StrTok(Val(h.field_names)[k])]
            tags == IF both THEN <<StrTok("TAGS"), StrTok(Val(h.open_tag)), StrTok(Val(h.close_tag))>> ELSE <<>>
            block == names \o tags
        IN  /\ pc = "awaiting" =>
                /\ Cardinality(at) = 1
                /\ \A i \in at :
                    /\ i + Len(block) <= n
                    /\ SubSeq(command, i + 1, i + Len(block)) = block
                /\ (\E j \in 1..n : command[j] = StrTok("TAGS")) <=> both
                /\ ~both => \A j \in 1..n :
                        /\ ~IsNone(h.open_tag) => command[j] # StrTok(Val(h.open_tag))
                        /\ ~IsNone(h.close_tag) => command[j] # StrTok(Val(h.close_tag))
            /\ (pc = "done" /\ nexec = 0) =>
                (call.client = "mixin" /\ ~(is_int(args.limit) /\ is_int(args.offset)))

\* C14: a search whose highlight names two fields and sets the close tag only
\* is awaiting with HIGHLIGHT FIELDS 2 line speech and no TAGS
C14_Witness ==
    /\ pc = "awaiting"
    /\ call.op = "search"
    /\ ~IsNone(args.highlight)
    /\ IsNone(Val(args.highlight).open_tag)
    /\ ~IsNone(Val(args.highlight).close_tag)
    /\ \E i \in 1..Len(command) :
        /\ i + 4 <= Len(command)
        /\ SubSeq(command, i, i + 4) = <<StrTok("HIGHLIGHT"), StrTok("FIELDS"), IntTok(2),
                                         StrTok("line"), StrTok("speech")>>
    /\ \A j \in 1..Len(command) : command[j] \notin {StrTok("TAGS"), StrTok("</b>")}

\* C15: add_document called without a field/value pair raises ValueError
\* 'Field/value pairs must be supplied', whatever its other arguments, and
\* hands no command to the transport.
C15_NoPairs ==
    (call.op = "add_document" /\ args.op = "add_document" /\ Len(args.fields) = 0) =>
        /\ pc = "done"
        /\ nexec = 0
        /\ command = <<>>
        /\ reply = NoReply
        /\ outcome = [kind |-> "raised", exc |-> "ValueError",
                      text |-> "Field/value pairs must be supplied", value |-> None]

\* C15: add_document called with every option and no pair has raised without
\* a command
C15_Witness ==
    /\ pc = "done"
    /\ call.op = "add_document"
    /\ args.op = "add_document"
    /\ Len(args.fields) = 0
    /\ args.no_save
    /\ ~IsNone(args.replace)
    /\ ~IsNone(args.language)
    /\ ~IsNone(args.payload)
    /\ ~IsNone(args.replace_condition)
    /\ nexec = 0
    /\ outcome.kind = "raised"

\* C16: the command of an add_document call with at least one pair is FT.ADD
\* <index> <id> <score>, then NOSAVE if no_save, then the replace tokens
\* (REPLACE for DEFAULT, REPLACE PARTIAL for PARTIAL, REPLACE NOCREATE for
\* NO_CREATE, REPLACE PARTIAL NOCREATE for PARTIAL | NO_CREATE, none without a
\* replace option), then LANGUAGE <lang>, PAYLOAD <value> and IF <quoted
\* expression> for those set, then FIELDS and a name and a value for each pair
\* in the caller's order.  The replace tokens of the other combinations of
\* replace options are not constrained here.
C16_AddDocumentOrder ==
    (pc = "awaiting" /\ call.op = "add_document") =>
        LET a == args
            R == StrTok("REPLACE")
            P == StrTok("PARTIAL")
            N == StrTok("NOCREATE")
            replaces ==
                IF IsNone(a.replace) THEN {<<>>}
                ELSE IF Val(a.replace) = ReplaceOptions.DEFAULT THEN {<<R>>}
                ELSE IF Val(a.replace) = ReplaceOptions.PARTIAL THEN {<<R, P>>}
                ELSE IF Val(a.replace) = ReplaceOptions.NO_CREATE THEN {<<R, N>>}
                ELSE IF Val(a.replace) = BitOr(ReplaceOptions.PARTIAL, ReplaceOptions.NO_CREATE) THEN {<<R, P, N>>}
                ELSE {<<>>, <<R>>, <<R, P>>, <<R, N>>, <<R, P, N>>}
            before(rep) ==
                <<StrTok("FT.ADD"), StrTok(a.index_name), StrTok(a.doc_id), StrTok(py_str(a.score))>>
                \o (IF a.no_save THEN <<StrTok("NOSAVE")>> ELSE <<>>)
                \o rep
                \o (IF IsNone(a.language) THEN <<>> ELSE <<StrTok("LANGUAGE"), StrTok(Val(a.language))>>)
                \o (IF IsNone(a.payload) THEN <<>> ELSE <<StrTok("PAYLOAD"), StrTok(Val(a.payload))>>)
                \o (IF IsNone(a.replace_condition) THEN <<>>
                    ELSE <<StrTok("IF"), StrTok(repr(Val(a.replace_condition)))>>)
                \o <<StrTok("FIELDS")>>
        IN  /\ Len(a.fields) >= 1
            /\ \E rep \in replaces :
                LET m == Len(before(rep))
                IN  /\ Len(command) = m + 2 * Len(a.fields)
                    /\ SubSeq(command, 1, m) = before(rep)
                    /\ \A k \in 1..Len(a.fields) :
                        /\ command[m + 2 * k - 1] = StrTok(a.fields[k][1])
                        /\ command[m + 2 * k].v \in {a.fields[k][2].v, repr(a.fields[k][2].v)}

\* C16: add_document with every option and three pairs is awaiting with the
\* whole command in the protocol's order
C16_Witness ==
    /\ pc = "awaiting"
    /\ call.op = "add_document"
    /\ command = <<StrTok("FT.ADD"), StrTok("myindex"), StrTok("adocid"), StrTok("0.5"), StrTok("NOSAVE"),
                   StrTok("REPLACE"), StrTok("PARTIAL"), StrTok("NOCREATE"),
                   StrTok("LANGUAGE"), StrTok("chinese"), StrTok("PAYLOAD"), StrTok("mypayload"),
                   StrTok("IF"), StrTok("'@age > 20'"), StrTok("FIELDS"),
                   StrTok("username"), StrTok("arenthop"), StrTok("real_name"), StrTok("'Aang Renthop'"),
                   StrTok("age"), StrTok("30")>>

\* C17: in the FIELDS section of an add_document command every field name is
\* sent as given and every value as a string: str(value) itself when it holds
\* no space, and otherwise str(value) between two quote characters of one kind
\* (the text between them being str(value) itself when it holds neither a
\* backslash nor that quote character).
C17_FieldValues ==
    (pc = "awaiting" /\ call.op = "add_document") =>
        LET fields == args.fields
            m == Len(command) - 2 * Len(fields)
            quotes == {"'", "\""}
        IN  /\ m >= 1
            /\ command[m] = StrTok("FIELDS")
            /\ \A k \in 1..Len(fields) :
                LET v == fields[k][2].v
                    sent == command[m + 2 * k]
                    e == sent.v
                    q == SubSeq(e, 1, 1)
                IN  /\ command[m + 2 * k - 1] = StrTok(fields[k][1])
                    /\ sent.t = "str"
                    /\ IF str_contains(" ", v)
                       THEN /\ Len(e) >= Len(v) + 2
                            /\ q \in quotes
                            /\ SubSeq(e, Len(e), Len(e)) = q
                            /\ (~str_contains("\\", v) /\ ~str_contains(q, v)) => e = q \o v \o q
                       ELSE e = v

\* C17: add_document with the pairs username/arenthop, real_name/Aang Renthop
\* and age/30 is awaiting with the second value quoted and the others not
C17_Witness ==
    /\ pc = "awaiting"
    /\ call.op = "add_document"
    /\ Len(command) >= 7
    /\ SubSeq(command, Len(command) - 6, Len(command))
        = <<StrTok("FIELDS"), StrTok("username"), StrTok("arenthop"), StrTok("real_name"),
            StrTok("'Aang Renthop'"), StrTok("age"), StrTok("30")>>

\* C18: get_document sends exactly FT.GET <index> <id>; a nil reply makes it
\* raise DocumentNotFoundError carrying the requested id and return nothing; a
\* reply that is a flat array of keys and values makes it return the mapping
\* with exactly the keys of the array, each mapped to the value that follows it.
C18_GetDocument ==
    (call.client = "client" /\ call.op = "get_document") =>
        /\ pc = "awaiting" =>
            command = <<StrTok("FT.GET"), StrTok(call.index_name), StrTok(call.doc_id)>>
        /\ pc = "done" =>
            /\ nexec = 1
            /\ reply.kind = "nil" =>
                outcome = [kind |-> "raised", exc |-> "DocumentNotFoundError",
                           text |-> call.doc_id, value |-> None]
            /\ (reply.kind = "value" /\ Len(Val(reply.value)) % 2 = 0) =>
                LET raw == Val(reply.value)
                    starts == {i \in 1..Len(raw) : i % 2 = 1}
                IN  /\ outcome.kind = "returned"
                    /\ DOMAIN Val(outcome.value) = {raw[i] : i \in starts}
                    /\ \A i \in starts :
                        (\A j \in starts : raw[j] = raw[i] => j <= i) =>
                            Val(outcome.value)[raw[i]] = raw[i + 1]

\* C18: get_document of adocid has raised DocumentNotFoundError(adocid) on a
\* nil reply
C18_Witness ==
    /\ pc = "done"
    /\ call.op = "get_document"
    /\ call.doc_id = "adocid"
    /\ reply.kind = "nil"
    /\ outcome.kind = "raised"
    /\ outcome.exc = "DocumentNotFoundError"
    /\ outcome.text = "adocid"

\* C19: the search of redicalsearch/mixin.py decodes every reply [total, id1,
\* fields1, ..., idk, fieldsk] whose field arrays alternate keys and values
\* into a result with that total, with exactly k documents in the order of the
\* reply, document i holding id_i and the pairwise folding of fields_i, with the
\* count k whatever the limit was, and with the offset and the limit of the call.
C19_SearchResultDecoded ==
    [][(/\ pc = "awaiting"
        /\ call.client = "mixin"
        /\ call.op = "search"
        /\ reply'.kind = "value"
        /\ Len(Val(reply'.value)) % 2 = 1
        /\ \A i \in 1..Len(Val(reply'.value)) :
                (i > 1 /\ i % 2 = 1) => Len(Val(reply'.value)[i]) % 2 = 0) =>
            LET response == Val(reply'.value)
                k == (Len(response) - 1) \div 2
            IN  /\ outcome'.kind = "returned"
                /\ Val(outcome'.value).total = response[1]
                /\ Val(outcome'.value).count = k
                /\ Val(outcome'.value).offset = args.offset.n
                /\ Val(outcome'.value).limit = args.limit.n
                /\ Len(Val(outcome'.value).documents) = k
                /\ \A i \in 1..k :
                    LET document == Val(outcome'.value).documents[i]
                        fields == response[2 * i + 1]
                    IN  /\ document["id"] = response[2 * i]
                        /\ DOMAIN document = {"id"} \cup {fields[y] : y \in {y \in 1..Len(fields) : y % 2 = 1}}
                        /\ \A y \in 1..Len(fields) :
                            (y % 2 = 1 /\ \A z \in 1..Len(fields) : (z % 2 = 1 /\ fields[z] = fields[y]) => z <= y)
                                => document[fields[y]] = fields[y + 1]]_vars

\* C20: info decodes a reply that holds every key its IndexInfo requires into
\* a record whose name and options are the values that follow index_name and
\* index_options, and whose field_defs has exactly the names of the reply's
\* 'fields' entries: for an entry [name, 'type', type, options...] the type is
\* element 2 and the options are the elements from index 3 on, the empty list
\* for an entry of three elements.
C20_IndexInfoDecoded ==
    (pc = "done" /\ call.op = "info" /\ reply.kind = "value") =>
        LET raw == Val(reply.value)
            keys == {raw[i] : i \in {i \in 1..Len(raw) : i % 2 = 1}}
            after(k) == raw[(CHOOSE i \in 1..Len(raw) : i % 2 = 1 /\ raw[i] = k) + 1]
            required == {"index_name", "index_options", "fields", "num_docs", "num_terms", "num_records"}
                        \cup (IF call.client = "aio" THEN {}
                              ELSE {"index_definition", "hash_indexing_failures", "percent_indexed"})
        IN  required \subseteq keys =>
                /\ outcome.kind = "returned"
                /\ Val(outcome.value).name = after("index_name")
                /\ Val(outcome.value).options = after("index_options")
                /\ LET fields == after("fields")
                       field_defs == Val(outcome.value).field_defs
                   IN  /\ DOMAIN field_defs = {fields[i][1] : i \in 1..Len(fields)}
                       /\ \A i \in 1..Len(fields) :
                            /\ field_defs[fields[i][1]].type = fields[i][3]
                            /\ Len(field_defs[fields[i][1]].options) = Len(fields[i]) - 3
                            /\ \A o \in 1..(Len(fields[i]) - 3) :
                                field_defs[fields[i][1]].options[o] = fields[i][o + 3]

\* C20: info has returned the definitions of the fields title, id and tags, id
\* being NUMERIC without options
C20_Witness ==
    /\ pc = "done"
    /\ call.op = "info"
    /\ call.client = "mixin"
    /\ outcome.kind = "returned"
    /\ DOMAIN Val(outcome.value).field_defs = {"title", "id", "tags"}
    /\ Val(outcome.value).field_defs["id"] = [type |-> "NUMERIC", options |-> <<>>]
    /\ Val(outcome.value).field_defs["title"] = [type |-> "TEXT", options |-> <<"WEIGHT", "1", "SORTABLE">>]

\* C21: every field that is built is the list [name, TYPE, type-specific
\* tokens, SORTABLE if set, NOINDEX if set] in this order: a tag field has
\* SEPARATOR <char> right after TAG, a text field NOSTEM, WEIGHT <number> and
\* PHONETIC <code>, each if set and in this order, and SORTABLE precedes NOINDEX.
\* The geo field of redicalsearch/field.py takes NO_INDEX only and never
\* holds SORTABLE.
C21_FieldTokenOrder ==
    (pc = "done" /\ call.op \in {"GeoField", "NumericField", "TagField", "TextField"}
     /\ outcome.kind = "returned") =>
        LET a == args
            flagged == call.client = "redicalsearch"
            has(member) == ~IsNone(a.flags) /\ BitAnd(Val(a.flags), member) = member
            sortable == IF flagged THEN has(FieldFlags.SORTABLE) /\ a.op # "GeoField" ELSE a.sortable
            no_index == IF flagged THEN has(FieldFlags.NO_INDEX) ELSE a.no_index
            no_stem == IF flagged THEN has(FieldFlags.NO_STEM) ELSE a.no_stem
            number(w) == IF flagged THEN [t |-> "float", v |-> str_float(py_float(w))]
                         ELSE [t |-> "str", v |-> py_str(w)]
            specific ==
                CASE a.op = "GeoField" -> <<StrTok("GEO")>>
                  [] a.op = "NumericField" -> <<StrTok("NUMERIC")>>
                  [] a.op = "TagField" ->
                        <<StrTok("TAG")>>
                        \o (IF IsNone(a.separator) THEN <<>>
                            ELSE <<StrTok("SEPARATOR"), StrTok(Val(a.separator))>>)
                  [] a.op = "TextField" ->
                        <<StrTok("TEXT")>>
                        \o (IF no_stem THEN <<StrTok("NOSTEM")>> ELSE <<>>)
                        \o (IF IsNone(a.weight) THEN <<>> ELSE <<StrTok("WEIGHT"), number(Val(a.weight))>>)
                        \o (IF IsNone(a.phonetic_matcher) THEN <<>>
                            ELSE <<StrTok("PHONETIC"), StrTok(Val(a.phonetic_matcher))>>)
            tokens == Val(outcome.value)
        IN  /\ tokens = <<StrTok(a.name)>> \o specific
                        \o (IF sortable THEN <<StrTok("SORTABLE")>> ELSE <<>>)
                        \o (IF no_index THEN <<StrTok("NOINDEX")>> ELSE <<>>)
            /\ \A i, j \in 1..Len(tokens) :
                (tokens[i] = StrTok("SORTABLE") /\ tokens[j] = StrTok("NOINDEX")) => i < j

\* C21: the text field with every flag, the weight 4 and the English matcher
\* has been built with every token
C21_Witness ==
    /\ pc = "done"
    /\ call.client = "redicalsearch"
    /\ call.op = "TextField"
    /\ outcome.kind = "returned"
    /\ Val(outcome.value) = <<StrTok("myfield"), StrTok("TEXT"), StrTok("NOSTEM"), StrTok("WEIGHT"),
                              FloatTok(40), StrTok("PHONETIC"), StrTok("dm:en"), StrTok("SORTABLE"),
                              StrTok("NOINDEX")>>

\* C22: for every field kind and every combination of the keyword booleans
\* that aioredisearch/field.py accepts, the field of redicalsearch/field.py
\* built with the same options as flags is the same token sequence.  The claim
\* is about the boolean options, so no weight is given here.
C22_LegacyFlagEquivalent ==
    (pc = "done" /\ call.client = "aioredisearch" /\ outcome.kind = "returned"
     /\ call.op \in {"GeoField", "NumericField", "TagField", "TextField"}
     /\ (call.op = "TextField" => IsNone(args.weight))) =>
        LET a == args
            n == (IF a.no_index THEN FieldFlags.NO_INDEX ELSE 0)
                 + (IF a.sortable THEN FieldFlags.SORTABLE ELSE 0)
                 + (IF a.op = "TextField" /\ a.no_stem THEN FieldFlags.NO_STEM ELSE 0)
            flags == IF n = 0 THEN None ELSE Some(n)
            flagged == CASE a.op = "GeoField" -> GeoField(a.name, flags)
                         [] a.op = "NumericField" -> NumericField(a.name, flags)
                         [] a.op = "TagField" -> TagField(a.name, flags, a.separator)
                         [] a.op = "TextField" -> TextField(a.name, flags, a.phonetic_matcher, a.weight)
        IN  ~flagged.raised /\ flagged.value = Val(outcome.value)

\* C22 as the code has it: for every field the keyword encoding accepts, the
\* flag encoding built with the same options is the same token sequence but
\* for two tokens.  A sortable geo field holds SORTABLE in the keyword encoding
\* and the flag encoding is the same list without it.  A text field with a
\* weight holds str(weight) after WEIGHT in the keyword encoding ('4' for 4)
\* and float(weight) in the flag encoding (4.0).
C22_EquivalentButSortableGeo ==
    (pc = "done" /\ call.client = "aioredisearch" /\ outcome.kind = "returned"
     /\ call.op \in {"GeoField", "NumericField", "TagField", "TextField"}) =>
        LET a == args
            n == (IF a.no_index THEN FieldFlags.NO_INDEX ELSE 0)
                 + (IF a.sortable THEN FieldFlags.SORTABLE ELSE 0)
                 + (IF a.op = "TextField" /\ a.no_stem THEN FieldFlags.NO_STEM ELSE 0)
            flags == IF n = 0 THEN None ELSE Some(n)
            flagged == CASE a.op = "GeoField" -> GeoField(a.name, flags)
                         [] a.op = "NumericField" -> NumericField(a.name, flags)
                         [] a.op = "TagField" -> TagField(a.name, flags, a.separator)
                         [] a.op = "TextField" -> TextField(a.name, flags, a.phonetic_matcher, a.weight)
            keyword == Val(outcome.value)
            weighted == a.op = "TextField" /\ ~IsNone(a.weight)
            after_weight(tokens, i) == i > 1 /\ tokens[i - 1] = StrTok("WEIGHT")
        IN  /\ ~flagged.raised
            /\ IF a.op = "GeoField" /\ a.sortable
               THEN /\ \E i \in 1..Len(keyword) : keyword[i] = StrTok("SORTABLE")
                    /\ flagged.value = SelectSeq(keyword, LAMBDA t : t # StrTok("SORTABLE"))
               ELSE IF weighted
               THEN /\ Len(flagged.value) = Len(keyword)
                    /\ \E i \in 2..Len(keyword) : after_weight(keyword, i)
                    /\ \A i \in 1..Len(keyword) :
                        IF after_weight(keyword, i)
                        THEN /\ keyword[i] = StrTok(py_str(Val(a.weight)))
                             /\ flagged.value[i] = FloatTok(py_float(Val(a.weight)))
                        ELSE flagged.value[i] = keyword[i]
               ELSE flagged.value = keyword

\* C22: the keyword geo field with sortable has been built as myfield GEO
\* SORTABLE, and the flag geo field with SORTABLE is myfield GEO
C22_Witness ==
    /\ pc = "done"
    /\ call.client = "aioredisearch"
    /\ call.op = "GeoField"
    /\ args.sortable
    /\ ~args.no_index
    /\ outcome.kind = "returned"
    /\ Val(outcome.value) = <<StrTok("myfield"), StrTok("GEO"), StrTok("SORTABLE")>>
    /\ GeoField("myfield", Some(FieldFlags.SORTABLE)).value = <<StrTok("myfield"), StrTok("GEO")>>

\* C23: with arguments that are valid otherwise (separator of one character
\* at most, known phonetic matcher), a field of aioredisearch/field.py with
\* no_index and without sortable is not built: the constructor of each of
\* the four kinds raises ValueError 'Fields must be sortable or be indexed'
\* (with an invalid separator or matcher it raises for that instead); a field
\* of redicalsearch/field.py with NO_INDEX and without SORTABLE is built and
\* its last token is NOINDEX.
C23_NoIndexWithoutSortable ==
    (pc = "done" /\ call.op \in {"GeoField", "NumericField", "TagField", "TextField"}) =>
        LET a == args
            others_valid ==
                /\ a.op = "TagField" => (IsNone(a.separator) \/ Len(Val(a.separator)) <= 1)
                /\ (a.op = "TextField" /\ call.client = "aioredisearch") =>
                        (IsNone(a.phonetic_matcher)
                         \/ Val(a.phonetic_matcher) \in {"dm:en", "dm:fr", "dm:pt", "dm:es"})
            has(member) == ~IsNone(a.flags) /\ BitAnd(Val(a.flags), member) = member
        IN  /\ (call.client = "aioredisearch" /\ a.no_index /\ ~a.sortable) =>
                /\ outcome.kind = "raised"
                /\ outcome.exc = "ValueError"
                /\ outcome.value = None
                /\ others_valid => outcome.text = "Fields must be sortable or be indexed"
            /\ (call.client = "redicalsearch" /\ has(FieldFlags.NO_INDEX) /\ ~has(FieldFlags.SORTABLE)
                /\ others_valid) =>
                /\ outcome.kind = "returned"
                /\ Val(outcome.value)[Len(Val(outcome.value))] = StrTok("NOINDEX")

\* C23: the keyword numeric field with no_index alone has raised, no field
\* built
C23_Witness ==
    /\ pc = "done"
    /\ call.client = "aioredisearch"
    /\ call.op = "NumericField"
    /\ args.no_index
    /\ ~args.sortable
    /\ outcome = [kind |-> "raised", exc |-> "ValueError",
                  text |-> "Fields must be sortable or be indexed", value |-> None]

\* C24: a tag field is built only with no separator or with a separator of
\* exactly one character, and every other separator makes TagField raise
\* ValueError: no field that is built holds SEPARATOR followed by a token
\* that is not one character.
C24_SeparatorOneCharacter ==
    (pc = "done" /\ call.op = "TagField") =>
        /\ (~IsNone(args.separator) /\ Len(Val(args.separator)) # 1) =>
                (outcome.kind = "raised" /\ outcome.exc = "ValueError")
        /\ outcome.kind = "returned" =>
                \A i \in 1..Len(Val(outcome.value)) :
                    Val(outcome.value)[i] = StrTok("SEPARATOR") =>
                        (i < Len(Val(outcome.value)) /\ Len(Val(outcome.value)[i + 1].v) = 1)

\* C25: ft.create(index_name, SchemaClass) hands execute, once, the command of
\* the explicit call with the fields the class declares, in declaration order,
\* and the options of its Options class.
C25_SchemaCreateAsExplicit ==
    (pc # "idle" /\ call.op = "create") =>
        LET cls == args.fields[1]
            o == Schema_get_options(cls)
            explicit == [op |-> "create", index_name |-> args.index_name, fields |-> Schema_get_fields(cls),
                         on |-> o.on, flag_order |-> IF IsNone(o.flags) THEN <<>> ELSE <<Val(o.flags)>>,
                         flags |-> o.flags, prefixes |-> o.prefixes, filter |-> o.filter,
                         language |-> o.language, language_field |-> o.language_field,
                         payload_field |-> o.payload_field, score |-> o.score, score_field |-> o.score_field,
                         stopwords |-> o.stopwords, temporary |-> o.temporary]
        IN  /\ nexec = 1
            /\ command = create_command(explicit).value

\* C26: SearchFlags.EXPLAIN_SCORE asks for the description of how the scores
\* were calculated: the command of a search with EXPLAIN_SCORE differs from the
\* command of the same search without it.
C26_ExplainScoreEmitted ==
    (/\ pc = "awaiting"
     /\ call.client = "mixin"
     /\ call.op = "search"
     /\ "EXPLAIN_SCORE" \in Range(args.flag_order)) =>
        LET other(name) == name # "EXPLAIN_SCORE"
            order == SelectSeq(args.flag_order, other)
            without == [args EXCEPT !.flag_order = order, !.flags = FlagsOf(Members(SearchFlags, order))]
        IN  command # search_command(without).value

\* C27: the mapping Document.hset() returns has no key 'id' and no attribute
\* whose value is None, has the integer 1 or 0 for every bool attribute and the
\* value itself for every other attribute that is no datetime; without
\* exclude it has every attribute that is set, and hset() returns.
C27_HsetMapping ==
    (pc = "done" /\ call.op = "hset") =>
        LET attrs == args.doc.attrs
            set(j) == ~IsNone(attrs[j].value)
        IN  /\ IsNone(args.exclude) => outcome.kind = "returned"
            /\ outcome.kind = "returned" =>
                LET d == Val(outcome.value) IN
                /\ \A i \in 1..Len(d) :
                    /\ d[i][1] # "id"
                    /\ \E j \in 1..Len(attrs) :
                        /\ attrs[j].name = d[i][1]
                        /\ set(j)
                        /\ attrs[j].type = "bool" =>
                            d[i][2] = (IF Val(attrs[j].value).v = "True" THEN IntTok(1) ELSE IntTok(0))
                        /\ attrs[j].type \in {"str", "int"} => d[i][2] = Val(attrs[j].value)
                /\ IsNone(args.exclude) =>
                    \A j \in 1..Len(attrs) : set(j) => \E i \in 1..Len(d) : d[i][1] = attrs[j].name

\* C27: hset() of a document with a bool attribute that is True and an
\* attribute that is None has returned the one item attr1: 1
C27_Witness ==
    /\ pc = "done"
    /\ call.op = "hset"
    /\ IsNone(args.exclude)
    /\ args.doc.attrs[1].type = "bool"
    /\ args.doc.attrs[1].value = Some([t |-> "bool", v |-> "True"])
    /\ IsNone(args.doc.attrs[2].value)
    /\ outcome.kind = "returned"
    /\ Val(outcome.value) = <<<<"attr1", IntTok(1)>>>>

\* C28: the command of an add_document call whose replace option has at least
\* one of DEFAULT, PARTIAL and NO_CREATE set holds REPLACE after the score and
\* NOSAVE, then PARTIAL iff PARTIAL is set, then NOCREATE iff NO_CREATE is set.
C28_ReplaceForEveryOption ==
    (pc = "awaiting" /\ call.op = "add_document" /\ ~IsNone(args.replace)) =>
        LET at == IF args.no_save THEN 6 ELSE 5
            partial == FlagIn(ReplaceOptions.PARTIAL, args.replace)
            no_create == FlagIn(ReplaceOptions.NO_CREATE, args.replace)
            expected == <<StrTok("REPLACE")>>
                        \o (IF partial THEN <<StrTok("PARTIAL")>> ELSE <<>>)
                        \o (IF no_create THEN <<StrTok("NOCREATE")>> ELSE <<>>)
        IN  /\ Len(command) >= at + Len(expected)
            /\ SubSeq(command, at, at + Len(expected) - 1) = expected
            /\ ~partial => command[at + 1] # StrTok("PARTIAL")
            /\ ~no_create => command[at + Len(expected)] # StrTok("NOCREATE")

\* C29: in every command of create, create_index and search the token after
\* PREFIX, STOPWORDS, INKEYS, INFIELDS, RETURN and FIELDS is the number of the
\* item tokens that follow it before the next keyword or the end of the
\* command (0 for an empty list), and every list the caller gave is in the
\* command under its keyword with its items in the caller's order.
C29_CountedLists ==
    (pc = "awaiting" /\ call.op \in {"create", "create_index", "search"}) =>
        LET Keywords == {StrTok(CommandCreateParameters[k]) : k \in DOMAIN CommandCreateParameters}
                        \cup {StrTok(CommandSearchParameters[k]) : k \in DOMAIN CommandSearchParameters}
            Counted == {StrTok(k) : k \in {"PREFIX", "STOPWORDS", "INKEYS", "INFIELDS", "RETURN", "FIELDS"}}
            n == Len(command)
            \* the position of the first keyword after the count at p + 1
            next(p) == CHOOSE q \in (p + 2)..(n + 1) :
                        /\ q = n + 1 \/ command[q] \in Keywords
                        /\ \A r \in (p + 2)..(q - 1) : command[r] \notin Keywords
            listed(keyword, values) ==
                IsNone(values) \/
                \E p \in 1..n :
                    /\ command[p] = StrTok(keyword)
                    /\ next(p) = p + 2 + Len(Val(values))
                    /\ SubSeq(command, p + 2, next(p) - 1) = StrTokens(Val(values))
            field_names(option) == IF IsNone(option) THEN None ELSE Val(option).field_names
        IN  /\ \A p \in 1..n :
                command[p] \in Counted =>
                    /\ p < n
                    /\ command[p + 1].v = str_int(next(p) - p - 2)
            /\ call.op = "create" => listed("PREFIX", args.prefixes)
            /\ call.op \in {"create", "create_index"} => listed("STOPWORDS", args.stopwords)
            /\ call.op = "search" =>
                /\ listed("INKEYS", args.in_keys)
                /\ listed("INFIELDS", args.in_fields)
                /\ listed("RETURN", args.return_fields)
                /\ listed("FIELDS", field_names(args.summarize))
                /\ listed("FIELDS", field_names(args.highlight))

\* C29: a search with an empty in_keys list and two return fields is awaiting
\* with INKEYS 0 and RETURN 2 line speech in its command
C29_Witness ==
    /\ pc = "awaiting"
    /\ call.op = "search"
    /\ call.client = "mixin"
    /\ args.in_keys = Some(<<>>)
    /\ args.return_fields = Some(<<"line", "speech">>)
    /\ \E p \in 1..(Len(command) - 5) :
        SubSeq(command, p, p + 5) = <<StrTok("INKEYS"), IntTok(0), StrTok("RETURN"), IntTok(2),
                                      StrTok("line"), StrTok("speech")>>

\* C30: the decoder of search returns one document per id of the reply: for
\* the reply [total, id1, ..., idk] of a search with NO_CONTENT it returns k
\* documents that hold the ids id1 .. idk in order and no field.
C30_IdsOnlyReplyDecoded ==
    [][(/\ pc = "awaiting"
        /\ call.client = "mixin"
        /\ call.op = "search"
        /\ "NO_CONTENT" \in Range(args.flag_order)
        /\ pc' = "done") =>
            \A k \in 1..3 :
                LET ids == SubSeq(<<"doc1", "doc2", "doc3">>, 1, k)
                IN  reply' = ValueReply(IdsOnlyReply(ids)) =>
                        /\ outcome'.kind = "returned"
                        /\ Val(outcome'.value).count = k
                        /\ Val(outcome'.value).documents = [i \in 1..k |-> [key \in {"id"} |-> ids[i]]]]_vars
=============================================================================
